---- MODULE Spec2Model ----
(***************************************************************************)
(* Model of the scooter discovery scripts of yandex_parser                 *)
(* (fetch_scooters.py / fetch_city_scooters.py): the grid partitioner      *)
(* simple_cluster_points and the staged discovery run fetch_city_scooters. *)
(*                                                                         *)
(* Coordinates are integers counting units of 0.005 degree, so that the    *)
(* grid size 0.02 is 4 units and the shrink half-width 0.005 is 1 unit;    *)
(* arithmetic is exact in the model.                                       *)
(*                                                                         *)
(* The other scripts have a specification each over variables of their     *)
(* own: the retry loop of fetch_all_zones.py / fetch_all_restrictions.py   *)
(* (SpecRetry), the city loop of fetch_zones.py (SpecZones), the grid scan *)
(* and the log of fetch_cities.py (SpecCities, SpecGridLog), the run and   *)
(* the conversion of fetch_parkings.py (SpecParkings) and the --city       *)
(* branch of fetch_scooters.py's main (SpecCityZones).                     *)
(***************************************************************************)
EXTENDS Integers, Sequences, FiniteSets, TLC

VARIABLES
    pc,               \* position of the run
    overview_data,    \* stage 1 response: [objects, rowan] coordinate entries
    all_points,       \* extract_points_from_response(overview_data)
    grid_size_deg,    \* cell size handed to simple_cluster_points
    hot_zones,        \* result of simple_cluster_points: [raised, zones]
    with_full_info,   \* parameter of fetch_city_scooters
    zone_i,           \* stage 3 loop: index of the next hot zone
    all_scooters,     \* the accumulator dict id -> record
    all_clusters_to_process,  \* the expansion queue
    cluster_i,        \* stage 4 loop: index of the next queued cluster
    full_info,        \* ids of the stored scooters that carry 'full_info'
    result,           \* the dict fetch_city_scooters returned
    upstream_left,    \* records the upstream may still return in this run
    issued,           \* history: the discovery queries issued, in order
    queued_from,      \* history: per queued cluster, the query that returned it
    returned_clusters,\* history: clusters seen in responses, with the stage
    returned_records, \* history: records seen in responses, with stage and type
    outcomes,         \* history: what each issued query met, in order
    answers,          \* history: the response to each issued query, in order
    last_merged,      \* history: per id, the record most recently merged
    last_overwrite,   \* history: per id, the last merge that was allowed to overwrite
    \* fetch_all_zones.py / fetch_all_restrictions.py: the zone-fetching retry loop
    available_city_ids, \* main: the cities to load, in order
    retry_count,      \* parameter of fetch_city_zones
    city_n,           \* main: number of cities whose call has been handled
    attempt,          \* fetch_city_zones: the loop variable of range(retry_count)
    zones_response,   \* what the call returned to main
    all_zones,        \* main: the zones collected
    failed_count,     \* main: calls that gave nothing
    tried,            \* history: what each request of the current call met
    slept,            \* history: the time.sleep() arguments of the current call
    calls,            \* history: the finished calls [tried, slept, returned]
    \* fetch_zones.py: main without --city
    cities,           \* load_city_polygons(cities_geojson)
    continue_from,    \* args.continue_from, 0 when the option is absent
    cities_to_process,\* cities or cities[start_idx:]
    idx,              \* the loop index of enumerate(cities_to_process, start=1)
    failed,           \* number of cities whose zones came back as None
    printed,          \* the --continue_from value printed before break, else 0
    token_expired,    \* the JWT of the running process has expired
    run,              \* history: 1 for the first run, 2 for the re-run
    fetch_log,        \* history: the requests [run, city, kind] of both runs
    \* fetch_cities.py: the world-grid scan and update_grid_from_log
    grid_data,        \* the squares of grid_3x3.geojson: [id, has_city, tested, polygon_count]
    log_lines,        \* the lines of fetch_cities_log.txt
    new_cities,       \* what update_grid_from_log returned, per application
    logged,           \* history: the (square_id, found_count) log_progress was called with
    search_new,       \* args.search_new
    scan_from,        \* args.continue_from of fetch_cities.py, 0 when absent
    known_squares,    \* ids of the squares with has_city == True
    unknown_squares,  \* ids of the other squares, filtered by --continue_from
    square_idx,       \* the loop index of the running stage
    all_polygons,     \* dict polygon_id -> feature
    jwt_expired,      \* the upstream has answered HTTP 405 in this run
    scan_log,         \* history: the requests [stage, square, kind, polygons]
    \* fetch_parkings.py: main and the GeoJSON conversion
    park_cities,      \* get_cities(): the AVAILABLE cities
    city_i,           \* index of the city being processed
    rent_zones,       \* the rent zones of that city
    zone_j,           \* index of the rent zone being processed
    city_data,        \* city_data['zones'] of that city
    all_parkings_data,\* the city_data of the cities that were not skipped
    parking_features, \* features written by convert_parkings_to_geojson
    vehicle_features, \* features written by convert_vehicles_to_geojson
    park_log,         \* history: the requests [what, city, zone, kind]
    \* fetch_scooters.py: main with --city
    city_zones,       \* find_cities_by_name(args.city)
    zone_idx,         \* index of the zone being discovered
    args_with_full_info,   \* args.with_full_info
    merged_scooters,  \* main's list all_scooters of (scooter_id, scooter_data)
    city_scooters_dict,    \* dict(all_scooters), handed to save_geojson
    saved_features,   \* the features save_geojson wrote
    zone_results      \* history: the dict each discovery returned

partvars_rest == <<overview_data, all_points, grid_size_deg, hot_zones>>

partvars == <<pc, partvars_rest>>

runvars == <<with_full_info, zone_i, all_scooters, all_clusters_to_process,
             cluster_i, full_info, result, upstream_left>>

histvars == <<issued, outcomes, answers, queued_from, returned_clusters,
              returned_records, last_merged, last_overwrite>>

retryvars == <<available_city_ids, retry_count, city_n, attempt, zones_response,
               all_zones, failed_count, tried, slept, calls>>

(* the state of the other scripts of the repository *)
zonesvars == <<cities, continue_from, cities_to_process, idx, failed, printed,
               token_expired, run, fetch_log>>

citiesvars == <<grid_data, log_lines, new_cities, logged, search_new, scan_from, known_squares,
                unknown_squares, square_idx, all_polygons, jwt_expired, scan_log>>

parkvars == <<park_cities, city_i, rent_zones, zone_j, city_data, all_parkings_data,
              parking_features, vehicle_features, park_log>>

mainvars == <<city_zones, zone_idx, args_with_full_info, merged_scooters, city_scooters_dict,
              saved_features, zone_results>>

scriptvars == <<retryvars, zonesvars, citiesvars, parkvars, mainvars>>

vars == <<partvars, runvars, histvars, scriptvars>>

(* a script that is not running *)
RetryIdle ==
    /\ available_city_ids = <<>>
    /\ retry_count = 0
    /\ city_n = 0
    /\ attempt = 0
    /\ zones_response = <<>>
    /\ all_zones = <<>>
    /\ failed_count = 0
    /\ tried = <<>>
    /\ slept = <<>>
    /\ calls = <<>>

ZonesIdle ==
    /\ cities = <<>>
    /\ continue_from = 0
    /\ cities_to_process = <<>>
    /\ idx = 0
    /\ failed = 0
    /\ printed = 0
    /\ token_expired = FALSE
    /\ run = 0
    /\ fetch_log = <<>>

CitiesIdle ==
    /\ grid_data = <<>>
    /\ log_lines = <<>>
    /\ new_cities = <<>>
    /\ logged = <<>>
    /\ search_new = FALSE
    /\ scan_from = 0
    /\ known_squares = <<>>
    /\ unknown_squares = <<>>
    /\ square_idx = 0
    /\ all_polygons = <<>>
    /\ jwt_expired = FALSE
    /\ scan_log = <<>>

ParkingsIdle ==
    /\ park_cities = <<>>
    /\ city_i = 0
    /\ rent_zones = <<>>
    /\ zone_j = 0
    /\ city_data = <<>>
    /\ all_parkings_data = <<>>
    /\ parking_features = <<>>
    /\ vehicle_features = <<>>
    /\ park_log = <<>>

MainIdle ==
    /\ city_zones = <<>>
    /\ zone_idx = 0
    /\ args_with_full_info = FALSE
    /\ merged_scooters = <<>>
    /\ city_scooters_dict = <<>>
    /\ saved_features = <<>>
    /\ zone_results = <<>>

ScriptsIdle(running) ==
    /\ running # "fetch_scooters --city" => MainIdle
    /\ running # "fetch_parkings" => ParkingsIdle
    /\ running # "fetch_cities" => CitiesIdle
    /\ running # "fetch_zones" => ZonesIdle
    /\ running # "fetch_all_zones" => RetryIdle

-----------------------------------------------------------------------------
(* Bounds of the model *)

MaxPoints == 3        \* entries in an overview response
MaxCoord == 2         \* largest longitude / latitude unit of an overview point
MaxObjects == 3       \* records the upstream returns over one discovery run

(* Cell sizes the partitioner is exercised with (units), all positive *)
CellSizes == {1, 2}

-----------------------------------------------------------------------------
(* Python dict: insertion-ordered sequence of [key, val] entries *)

DictKeys(d) == {d[i].key : i \in DOMAIN d}

DictIndex(d, k) == CHOOSE i \in DOMAIN d : d[i].key = k

DictHas(d, k) == k \in DictKeys(d)

DictGet(d, k) == d[DictIndex(d, k)].val

DictSetAlwaysAppend(d, k, v) == Append(d, [key |-> k, val |-> v])

(* d[k] = v *)
DictSet(d, k, v) ==
    IF DictHas(d, k)
    THEN [d EXCEPT ![DictIndex(d, k)] = [key |-> k, val |-> v]]
    ELSE Append(d, [key |-> k, val |-> v])

-----------------------------------------------------------------------------
(* Overview response entries *)

Coords2 == {<<x, y>> : x \in 0..MaxCoord, y \in 0..MaxCoord}

(* coordinate lists as they may appear in a response: too short, a plain
   [lon, lat], or [lon, lat, extra] *)
CoordLists == Coords2 \cup {<<0>>, <<0, 0, 0>>}

(* entries of objects.objects_by_type[].objects: a dict carrying 'geo', or a
   bare list *)
ObjectGeos == {<<0>>, <<0, 0>>, <<1, 1>>}

ObjectEntries == [isdict : BOOLEAN, geo : ObjectGeos]

-----------------------------------------------------------------------------
(* extract_points_from_response *)

RECURSIVE ObjectPoints(_)
ObjectPoints(objs) ==
    IF objs = <<>> THEN <<>>
    ELSE LET obj == Head(objs)
             rest == ObjectPoints(Tail(objs))
         IN  IF obj.isdict THEN <<obj.geo>> \o rest
             ELSE IF Len(obj.geo) >= 2 THEN <<obj.geo>> \o rest
             ELSE rest

RowanPoints(coordlist) == SelectSeq(coordlist, LAMBDA c : Len(c) >= 2)

extract_points_from_response(data) ==
    ObjectPoints(data.objects) \o RowanPoints(data.rowan)

-----------------------------------------------------------------------------
(* simple_cluster_points *)

SeqMin(s) == CHOOSE m \in {s[i] : i \in DOMAIN s} : \A j \in DOMAIN s : m <= s[j]

(* p[0] and p[1] exist; lon, lat = point unpacks *)
Indexable(point) == Len(point) >= 2

Unpacks(point) == Len(point) = 2

GridIndexRoundUp(coord, min_coord, size) == (coord - min_coord + size - 1) \div size

(* int((lon - min_lon) / grid_size_deg), the offset is never negative *)
GridIndex(coord, min_coord, size) == (coord - min_coord) \div size

GridKey(point, min_lon, min_lat, size) ==
    <<GridIndex(point[1], min_lon, size), GridIndex(point[2], min_lat, size)>>

(* grid[(grid_x, grid_y)].append(point) on a defaultdict(list) *)
GridAppend(grid, key, point) ==
    IF DictHas(grid, key)
    THEN DictSet(grid, key, Append(DictGet(grid, key), point))
    ELSE DictSet(grid, key, <<point>>)

RECURSIVE BuildGrid(_, _, _, _, _)
BuildGrid(points, min_lon, min_lat, size, grid) ==
    IF points = <<>> THEN grid
    ELSE BuildGrid(Tail(points), min_lon, min_lat, size,
                   GridAppend(grid, GridKey(Head(points), min_lon, min_lat, size),
                              Head(points)))

CellBBoxFromOrigin(key, min_lon, min_lat, size) ==
    <<key[1] * size, key[2] * size, key[1] * size + size, key[2] * size + size>>

CellBBox(key, min_lon, min_lat, size) ==
    <<min_lon + key[1] * size,
      min_lat + key[2] * size,
      min_lon + key[1] * size + size,
      min_lat + key[2] * size + size>>

HotZone(entry, min_lon, min_lat, size) ==
    [bbox |-> CellBBox(entry.key, min_lon, min_lat, size),
     points_count |-> Len(entry.val)]

RECURSIVE HotZones(_, _, _, _)
HotZones(grid, min_lon, min_lat, size) ==
    IF grid = <<>> THEN <<>>
    ELSE LET rest == HotZones(Tail(grid), min_lon, min_lat, size)
         IN  IF Len(Head(grid).val) > 0
             THEN <<HotZone(Head(grid), min_lon, min_lat, size)>> \o rest
             ELSE rest

Returned(zones) == [raised |-> FALSE, zones |-> zones]

Raised == [raised |-> TRUE, zones |-> <<>>]

simple_cluster_points(points, size) ==
    IF points = <<>> THEN Returned(<<>>)
    ELSE IF \E i \in DOMAIN points : ~Indexable(points[i]) THEN Raised
    ELSE IF \E i \in DOMAIN points : ~Unpacks(points[i]) THEN Raised
    ELSE LET min_lon == SeqMin([i \in DOMAIN points |-> points[i][1]])
             min_lat == SeqMin([i \in DOMAIN points |-> points[i][2]])
             grid == BuildGrid(points, min_lon, min_lat, size, <<>>)
         IN  Returned(HotZones(grid, min_lon, min_lat, size))

-----------------------------------------------------------------------------
(* Program constants of the discovery run *)

MinClusterSize == 50      \* min_cluster_size default
OverviewZoom == 12
CellZoom == 17
ExpandZoom == 19
GridSizeDeg == 4          \* grid_size_deg=0.02, in units of 0.005 degree
ShrinkSizeDeg == 1        \* size_deg=0.005, in units of 0.005 degree

(* the target region handed to the run *)
CityBBox == <<0, 0, 8, 4>>

-----------------------------------------------------------------------------
(* Records of a discovery response.  id "" stands for a missing or empty id,
   geo <<>> for missing coordinates; ver distinguishes two observations of
   the same object whose content differs *)

Record(id, geo, count, ver) ==
    [id |-> id, geo |-> geo, objects_count |-> count, ver |-> ver]

NoRecord == Record("", <<>>, 0, 0)

ScooterRecords ==
    {Record("scooter_1", <<1, 1>>, 0, 1),
     Record("scooter_1", <<1, 1>>, 0, 2),
     Record("", <<1, 1>>, 0, 1)}

ClusterRecords ==
    {Record("cluster_1", <<1, 1>>, 120, 1),
     Record("cluster_2", <<2, 1>>, 40, 1),
     Record("cluster_2", <<2, 1>>, 60, 1),
     Record("cluster_3", <<>>, 120, 1),
     Record("", <<1, 1>>, 40, 1)}

EmptyClusterRecords == {Record("cluster_empty_1", <<1, 1>>, 0, 1)}

AllIds == {"scooter_1", "cluster_1", "cluster_2", "cluster_3", "cluster_empty_1"}

(* city_metadata stored under '__metadata__' *)
MetadataRecord == Record("", <<>>, 0, 9)

(* obj_id.startswith('scooter_') *)
IsScooterId(id) == id \in {"scooter_1"}

SeqsOfLen(S, n) == [1..n -> S]

ResponseSize(data) == Len(data.scooters) + Len(data.clusters) + Len(data.cluster_empty)

Ok(scooters, clusters, cluster_empty) ==
    [kind |-> "ok", scooters |-> scooters, clusters |-> clusters,
     cluster_empty |-> cluster_empty]

Failure(kind) == [kind |-> kind, scooters |-> <<>>, clusters |-> <<>>, cluster_empty |-> <<>>]

(* the bodies with ns scooters, nc clusters and ne empty clusters *)
OkResponses(ns, nc, ne) ==
    {Ok(s, c, e) : s \in SeqsOfLen(ScooterRecords, ns),
                   c \in SeqsOfLen(ClusterRecords, nc),
                   e \in SeqsOfLen(EmptyClusterRecords, ne)}

(* what one call of fetch_scooters may meet: "auth" (HTTP 405/401/403),
   "error" (a RequestException or an empty body), "malformed" (a body whose
   structure makes the extraction raise), "ok" (a body with three lists that
   hold at most `left` records) *)
Responses(left) ==
    {Failure("auth"), Failure("error"), Failure("malformed")}
        \cup UNION {OkResponses(n[1], n[2], n[3]) :
                        n \in {m \in (0..left) \X (0..left) \X (0..1) :
                                  m[1] + m[2] + m[3] <= left}}

-----------------------------------------------------------------------------
(* fetch_scooters: the outcome of one discovery request *)

ExitsProcessNever(resp) == FALSE

(* status 405, 401 or 403: sys.exit(1) *)
ExitsProcess(resp) == resp.kind = "auth"

(* a status of 400 or above that was not handled above makes
   raise_for_status raise HTTPError, and any RequestException gives
   return None; the callers test `if not data` *)
ReturnsNone(resp) == resp.kind \in {"auth", "error"}

(* a body on which the extraction or the merge raises (AttributeError,
   TypeError): `objects` or a `payload` that is null, an entry that is not a
   dict *)
RaisesOnExtraction(resp) == resp.kind = "malformed"

(* extract_detailed_objects *)
extract_detailed_objects(data) ==
    [scooters |-> data.scooters,
     clusters |-> data.clusters,
     cluster_empty |-> data.cluster_empty]

(* shrink_bbox_around_point *)
shrink_bbox_wide(point, size_deg) ==
    <<point[1] - 4 * size_deg, point[2] - 4 * size_deg,
      point[1] + 4 * size_deg, point[2] + 4 * size_deg>>

shrink_bbox_around_point(point, size_deg) ==
    <<point[1] - size_deg, point[2] - size_deg,
      point[1] + size_deg, point[2] + size_deg>>

BBoxCenter(bbox) == <<(bbox[1] + bbox[3]) \div 2, (bbox[2] + bbox[4]) \div 2>>

-----------------------------------------------------------------------------
(* The merges of fetch_city_scooters into all_scooters *)

DictSetFresh(d, k, v) == <<[key |-> k, val |-> v]>>

(* all_scooters[id] = record *)
Store(acc, record) == DictSet(acc, record.id, record)

MergeCellScooterAppend(acc, scooter) ==
    IF scooter.id # "" THEN Append(acc, [key |-> scooter.id, val |-> scooter]) ELSE acc

(* stage 3: if scooter_id: all_scooters[scooter_id] = scooter *)
MergeCellScooter(acc, scooter) ==
    IF scooter.id # "" THEN Store(acc, scooter) ELSE acc

IsLargeClusterAlways(cluster) == TRUE

(* count >= min_cluster_size *)
IsLargeCluster(cluster) == cluster.objects_count >= MinClusterSize

(* stage 3: small clusters are stored as they are, if they have an id *)
MergeCellCluster(acc, cluster) ==
    IF cluster.id # "" THEN Store(acc, cluster) ELSE acc

MergeExpandedScooterOverwrite(acc, scooter) ==
    IF scooter.id # "" THEN Store(acc, scooter) ELSE acc

(* stage 4: if scooter_id and scooter_id not in all_scooters *)
MergeExpandedScooter(acc, scooter) ==
    IF scooter.id # "" /\ ~DictHas(acc, scooter.id) THEN Store(acc, scooter) ELSE acc

MergeSubClusterUnchecked(acc, sub_cluster) == Store(acc, sub_cluster)

(* stage 4: the clusters that remain are stored *)
MergeSubCluster(acc, sub_cluster) ==
    IF sub_cluster.id # "" THEN Store(acc, sub_cluster) ELSE acc

StoreUnexpandedDropped(acc, cluster) == acc

StoreUnexpandedFresh(acc, cluster) ==
    IF cluster.id # "" THEN DictSetFresh(acc, cluster.id, cluster) ELSE acc

(* stage 4, failed request: the cluster is stored as it is *)
StoreUnexpanded(acc, cluster) ==
    IF cluster.id # "" THEN Store(acc, cluster) ELSE acc

SmallClusters(clusters) == SelectSeq(clusters, LAMBDA c : ~IsLargeCluster(c))

LargeClusters(clusters) == SelectSeq(clusters, IsLargeCluster)

(* for scooter in objects['scooters'] (stage 3) *)
RECURSIVE MergeCellScooters(_, _)
MergeCellScooters(acc, scooters) ==
    IF scooters = <<>> THEN acc
    ELSE MergeCellScooters(MergeCellScooter(acc, Head(scooters)), Tail(scooters))

(* for cluster in objects['clusters'] (stage 3), the accumulator side *)
RECURSIVE MergeCellClusters(_, _)
MergeCellClusters(acc, clusters) ==
    IF clusters = <<>> THEN acc
    ELSE MergeCellClusters(
             IF IsLargeCluster(Head(clusters)) THEN acc
             ELSE MergeCellCluster(acc, Head(clusters)),
             Tail(clusters))

(* for scooter in objects['scooters'] (stage 4) *)
RECURSIVE MergeExpandedScooters(_, _)
MergeExpandedScooters(acc, scooters) ==
    IF scooters = <<>> THEN acc
    ELSE MergeExpandedScooters(MergeExpandedScooter(acc, Head(scooters)), Tail(scooters))

(* for sub_cluster in objects['clusters'] (stage 4) *)
RECURSIVE MergeSubClusters(_, _)
MergeSubClusters(acc, clusters) ==
    IF clusters = <<>> THEN acc
    ELSE MergeSubClusters(MergeSubCluster(acc, Head(clusters)), Tail(clusters))

(* the body of the stage 3 loop after a successful request *)
MergeCell(acc, objects) ==
    MergeCellClusters(MergeCellScooters(acc, objects.scooters), objects.clusters)

MergeExpansionFresh(acc, objects) ==
    MergeSubClusters(MergeExpandedScooters(<<>>, objects.scooters), objects.clusters)

(* the body of the stage 4 loop after a successful request *)
MergeExpansion(acc, objects) ==
    MergeSubClusters(MergeExpandedScooters(acc, objects.scooters), objects.clusters)

(* scooter_list of stage 5 *)
ScooterList(acc) == SelectSeq(acc, LAMBDA e : IsScooterId(e.val.id))

-----------------------------------------------------------------------------
(* save_geojson: the features written for a returned dict *)

(* obj_id.split('_')[0] == 'cluster' *)
IsClusterId(id) == id \in {"cluster_1", "cluster_2", "cluster_3", "cluster_empty_1"}

Feature(obj_id, obj) == [id |-> obj_id, coordinates |-> obj.geo]

(* '__metadata__' is popped; a record without geo is skipped; in full_info
   mode the clusters are skipped *)
Written(entry, full_info_mode) ==
    /\ entry.key # "__metadata__"
    /\ entry.val.geo # <<>>
    /\ ~(full_info_mode /\ IsClusterId(entry.key))

RECURSIVE Features(_, _)
Features(scooters_dict, full_info_mode) ==
    IF scooters_dict = <<>> THEN <<>>
    ELSE LET entry == Head(scooters_dict)
             rest == Features(Tail(scooters_dict), full_info_mode)
         IN  IF Written(entry, full_info_mode)
             THEN <<Feature(entry.key, entry.val)>> \o rest
             ELSE rest

-----------------------------------------------------------------------------
(* History of a run, kept for stating properties; the program does not read it *)

Query(stage, zoom, bbox, user_location, parent, cluster, entry) ==
    [stage |-> stage, zoom |-> zoom, bbox |-> bbox, user_location |-> user_location,
     parent |-> parent, cluster |-> cluster, entry |-> entry]

Offer(record, keep_first) == [rec |-> record, keep_first |-> keep_first]

WithId(records) == SelectSeq(records, LAMBDA r : r.id # "")

Offers(records, keep_first) ==
    [i \in DOMAIN WithId(records) |-> Offer(WithId(records)[i], keep_first)]

(* the records the stage 3 loop body hands to the accumulator, in order *)
CellOffers(objects) ==
    Offers(objects.scooters, FALSE) \o Offers(SmallClusters(objects.clusters), FALSE)

(* the records the stage 4 loop body hands to the accumulator, in order *)
ExpansionOffers(objects) ==
    Offers(objects.scooters, TRUE) \o Offers(objects.clusters, FALSE)

RECURSIVE NoteOffers(_, _)
NoteOffers(h, offers) ==
    IF offers = <<>> THEN h
    ELSE LET o == Head(offers)
             known == h.merged[o.rec.id] # NoRecord
         IN  NoteOffers(
                 [merged |-> [h.merged EXCEPT ![o.rec.id] = o.rec],
                  overwrite |-> IF o.keep_first /\ known THEN h.overwrite
                                ELSE [h.overwrite EXCEPT ![o.rec.id] = o.rec]],
                 Tail(offers))

Noted(offers) == NoteOffers([merged |-> last_merged, overwrite |-> last_overwrite], offers)

NoteMerges(offers) ==
    /\ last_merged' = Noted(offers).merged
    /\ last_overwrite' = Noted(offers).overwrite

Seen(records, stage, type) ==
    {[record |-> records[i], stage |-> stage, type |-> type] : i \in DOMAIN records}

(* the entries of a response body, under their objects_by_type type *)
SeenRecords(data, stage) ==
    Seen(data.scooters, stage, "scooter") \cup Seen(data.clusters, stage, "cluster")
        \cup Seen(data.cluster_empty, stage, "cluster_empty")

SeenClusters(clusters, stage) ==
    {[cluster |-> clusters[i], stage |-> stage] : i \in DOMAIN clusters}

-----------------------------------------------------------------------------
(* fetch_city_scooters *)

(* the overview responses of a run: no point, one point, three points that
   fall in two cells of the 0.02 degree grid, and a point of three elements *)
RunPoints ==
    {<<>>, <<<<0, 0>>>>, <<<<0, 0>>, <<1, 1>>, <<4, 0>>>>, <<<<0, 0, 0>>>>}

RunOverviews == {[objects |-> <<>>, rowan |-> r] : r \in RunPoints}

NoOverview == [objects |-> <<>>, rowan |-> <<>>]

NotComputed == [raised |-> FALSE, zones |-> <<>>]

NoMerges == [id \in AllIds |-> NoRecord]

Init ==
    /\ pc = "start"
    /\ with_full_info \in BOOLEAN
    /\ overview_data = NoOverview
    /\ all_points = <<>>
    /\ grid_size_deg = GridSizeDeg
    /\ hot_zones = NotComputed
    /\ zone_i = 0
    /\ all_scooters = <<>>
    /\ all_clusters_to_process = <<>>
    /\ cluster_i = 0
    /\ full_info = {}
    /\ result = <<>>
    /\ upstream_left = MaxObjects
    /\ issued = <<>>
    /\ outcomes = <<>>
    /\ answers = <<>>
    /\ queued_from = <<>>
    /\ returned_clusters = {}
    /\ returned_records = {}
    /\ last_merged = NoMerges
    /\ last_overwrite = NoMerges
    /\ ScriptsIdle("fetch_scooters")

LoopEndsEarly(i, items) == i + 1 >= Len(items)

(* for i, item in enumerate(items, 1): the iteration i is the last one *)
LoopEnds(i, items) == i = Len(items)

(* where the run continues once the stage 3 loop is over *)
AfterCells(queue) ==
    IF queue # <<>> THEN "stage4"
    ELSE IF with_full_info THEN "stage5" ELSE "return"

(* where the run continues once the stage 4 loop is over *)
AfterClusters == IF with_full_info THEN "stage5" ELSE "return"

NoPointsNever(points) == FALSE

(* if len(all_points) == 0: return {} *)
NoPoints(points) == Len(points) = 0

(* stage 1 and 2: the overview request at zoom 12, the extraction of its
   points and their partition into hot zones *)
Stage1Overview ==
    /\ pc = "start"
    /\ issued' = <<Query(1, OverviewZoom, CityBBox, BBoxCenter(CityBBox), 0, NoRecord, 0)>>
    /\ \E kind \in {"auth", "error", "malformed", "ok"} :
         \E data \in (IF kind = "ok" THEN RunOverviews ELSE {NoOverview}) :
            LET resp == Failure(kind)
                points == extract_points_from_response(data)
                zones == simple_cluster_points(points, GridSizeDeg)
            IN  /\ overview_data' = data
                /\ outcomes' = <<kind>>
                /\ answers' = <<resp>>
                /\ IF ExitsProcess(resp) THEN
                       /\ pc' = "exited"
                       /\ UNCHANGED <<all_points, hot_zones, zone_i>>
                   ELSE IF ReturnsNone(resp) THEN
                       /\ pc' = "done"
                       /\ UNCHANGED <<all_points, hot_zones, zone_i>>
                   ELSE IF RaisesOnExtraction(resp) THEN
                       /\ pc' = "crashed"
                       /\ UNCHANGED <<all_points, hot_zones, zone_i>>
                   ELSE IF NoPoints(points) THEN
                       /\ all_points' = points
                       /\ pc' = "done"
                       /\ UNCHANGED <<hot_zones, zone_i>>
                   ELSE
                       /\ all_points' = points
                       /\ hot_zones' = zones
                       /\ pc' = IF zones.raised THEN "crashed"
                              ELSE IF zones.zones = <<>> THEN AfterCells(<<>>)
                              ELSE "stage3"
                       /\ zone_i' = IF zones.raised THEN zone_i ELSE 1
    /\ UNCHANGED <<grid_size_deg, with_full_info, all_scooters, all_clusters_to_process,
                   cluster_i, full_info, result, upstream_left, queued_from,
                   returned_clusters, returned_records, last_merged, last_overwrite>>
    /\ UNCHANGED scriptvars

(* stage 3: one iteration of the loop over hot_zones, a request at zoom 17 *)
Stage3Cell ==
    /\ pc = "stage3"
    /\ LET zone == hot_zones.zones[zone_i]
           last == LoopEnds(zone_i, hot_zones.zones)
       IN  /\ issued' = Append(issued,
                   Query(3, CellZoom, zone.bbox, BBoxCenter(zone.bbox), 1, NoRecord, 0))
           /\ \E resp \in Responses(upstream_left) :
              /\ outcomes' = Append(outcomes, resp.kind)
              /\ answers' = Append(answers, resp)
              /\ IF ExitsProcess(resp) THEN
                    /\ pc' = "exited"
                    /\ UNCHANGED <<zone_i, all_scooters, all_clusters_to_process, cluster_i,
                                   upstream_left, queued_from, returned_clusters, returned_records,
                                   last_merged, last_overwrite>>
                ELSE IF ReturnsNone(resp) THEN
                    /\ zone_i' = zone_i + 1
                    /\ pc' = IF last THEN AfterCells(all_clusters_to_process) ELSE "stage3"
                    /\ cluster_i' = IF last /\ all_clusters_to_process # <<>> THEN 1 ELSE cluster_i
                    /\ UNCHANGED <<all_scooters, all_clusters_to_process, upstream_left,
                                   queued_from, returned_clusters, returned_records, last_merged,
                                   last_overwrite>>
                ELSE IF RaisesOnExtraction(resp) THEN
                    /\ pc' = "crashed"
                    /\ UNCHANGED <<zone_i, all_scooters, all_clusters_to_process, cluster_i,
                                   upstream_left, queued_from, returned_clusters, returned_records,
                                   last_merged, last_overwrite>>
                ELSE
                    LET objects == extract_detailed_objects(resp)
                        large == LargeClusters(objects.clusters)
                        queue == all_clusters_to_process \o large
                    IN  /\ all_scooters' = MergeCell(all_scooters, objects)
                        /\ all_clusters_to_process' = queue
                        /\ queued_from' = queued_from \o [i \in DOMAIN large |-> Len(issued')]
                        /\ returned_clusters' =
                               returned_clusters \cup SeenClusters(objects.clusters, 3)
                        /\ returned_records' = returned_records \cup SeenRecords(resp, 3)
                        /\ NoteMerges(CellOffers(objects))
                        /\ upstream_left' = upstream_left - ResponseSize(resp)
                        /\ zone_i' = zone_i + 1
                        /\ pc' = IF last THEN AfterCells(queue) ELSE "stage3"
                        /\ cluster_i' = IF last /\ queue # <<>> THEN 1 ELSE cluster_i
    /\ UNCHANGED <<overview_data, all_points, grid_size_deg, hot_zones, with_full_info,
                   full_info, result>>
    /\ UNCHANGED scriptvars

(* stage 4: one iteration of the loop over all_clusters_to_process, a request
   at zoom 19 on the box shrunk around the cluster *)
Stage4Cluster ==
    /\ pc = "stage4"
    /\ LET cluster == all_clusters_to_process[cluster_i]
           last == LoopEnds(cluster_i, all_clusters_to_process)
           next == IF last THEN AfterClusters ELSE "stage4"
       IN  IF cluster.geo = <<>> THEN
               /\ cluster_i' = cluster_i + 1
               /\ pc' = next
               /\ UNCHANGED <<all_scooters, upstream_left, issued, outcomes, answers,
                              returned_clusters, returned_records, last_merged, last_overwrite>>
           ELSE
               /\ issued' = Append(issued,
                      Query(4, ExpandZoom,
                            shrink_bbox_around_point(cluster.geo, ShrinkSizeDeg),
                            cluster.geo, queued_from[cluster_i], cluster, cluster_i))
               /\ \E resp \in Responses(upstream_left) :
                  /\ outcomes' = Append(outcomes, resp.kind)
                  /\ answers' = Append(answers, resp)
                  /\ IF ExitsProcess(resp) THEN
                        /\ pc' = "exited"
                        /\ UNCHANGED <<cluster_i, all_scooters, upstream_left,
                                       returned_clusters, returned_records, last_merged, last_overwrite>>
                    ELSE IF ReturnsNone(resp) THEN
                        /\ all_scooters' = StoreUnexpanded(all_scooters, cluster)
                        /\ NoteMerges(Offers(<<cluster>>, FALSE))
                        /\ cluster_i' = cluster_i + 1
                        /\ pc' = next
                        /\ UNCHANGED <<upstream_left, returned_clusters, returned_records>>
                    ELSE IF RaisesOnExtraction(resp) THEN
                        /\ pc' = "crashed"
                        /\ UNCHANGED <<cluster_i, all_scooters, upstream_left,
                                       returned_clusters, returned_records, last_merged, last_overwrite>>
                    ELSE
                        LET objects == extract_detailed_objects(resp)
                        IN  /\ all_scooters' = MergeExpansion(all_scooters, objects)
                            /\ returned_clusters' =
                                   returned_clusters \cup SeenClusters(objects.clusters, 4)
                            /\ returned_records' = returned_records \cup SeenRecords(resp, 4)
                            /\ NoteMerges(ExpansionOffers(objects))
                            /\ upstream_left' = upstream_left - ResponseSize(resp)
                            /\ cluster_i' = cluster_i + 1
                            /\ pc' = next
    /\ UNCHANGED <<overview_data, all_points, grid_size_deg, hot_zones, with_full_info,
                   zone_i, all_clusters_to_process, full_info, result, queued_from>>
    /\ UNCHANGED scriptvars

(* stage 5 (with_full_info): every stored scooter with coordinates is looked
   up through /offers/create, which may fail per scooter; the city metadata
   is stored under '__metadata__' when there is at least one scooter *)
Stage5FullInfo ==
    /\ pc = "stage5"
    /\ LET scooter_list == ScooterList(all_scooters)
           eligible == {scooter_list[i].val.id : i \in
                            {j \in DOMAIN scooter_list : scooter_list[j].val.geo # <<>>}}
       IN  IF scooter_list = <<>> THEN
               UNCHANGED <<all_scooters, full_info>>
           ELSE
               /\ \E answered \in SUBSET eligible : full_info' = answered
               /\ all_scooters' = DictSet(all_scooters, "__metadata__", MetadataRecord)
    /\ pc' = "return"
    /\ UNCHANGED <<partvars_rest, with_full_info, zone_i, all_clusters_to_process,
                   cluster_i, result, upstream_left, histvars>>
    /\ UNCHANGED scriptvars

(* return all_scooters *)
Return ==
    /\ pc = "return"
    /\ result' = all_scooters
    /\ pc' = "done"
    /\ UNCHANGED <<partvars_rest, with_full_info, zone_i, all_scooters,
                   all_clusters_to_process, cluster_i, full_info, upstream_left, histvars>>
    /\ UNCHANGED scriptvars

Next == Stage1Overview \/ Stage3Cell \/ Stage4Cluster \/ Stage5FullInfo \/ Return

Spec == Init /\ [][Next]_vars

-----------------------------------------------------------------------------
(* Specification of the partitioner alone: an overview response is drawn,
   its points are extracted and partitioned with a positive cell size *)

InitPartition ==
    /\ pc = "overview"
    /\ overview_data = NoOverview
    /\ grid_size_deg \in CellSizes
    /\ all_points = <<>>
    /\ hot_zones = NotComputed
    /\ with_full_info = FALSE
    /\ zone_i = 0
    /\ all_scooters = <<>>
    /\ all_clusters_to_process = <<>>
    /\ cluster_i = 0
    /\ full_info = {}
    /\ result = <<>>
    /\ upstream_left = 0
    /\ issued = <<>>
    /\ outcomes = <<>>
    /\ answers = <<>>
    /\ queued_from = <<>>
    /\ returned_clusters = {}
    /\ returned_records = {}
    /\ last_merged = NoMerges
    /\ last_overwrite = NoMerges
    /\ ScriptsIdle("fetch_scooters")

(* the upstream response carries one more entry in objects (listed first) *)
ReceiveObject ==
    /\ pc = "overview"
    /\ overview_data.rowan = <<>>
    /\ Len(overview_data.objects) < MaxPoints
    /\ \E e \in ObjectEntries :
          overview_data' = [overview_data EXCEPT !.objects = Append(@, e)]
    /\ UNCHANGED <<pc, all_points, grid_size_deg, hot_zones, runvars, histvars>>
    /\ UNCHANGED scriptvars

(* the upstream response carries one more entry in rowan *)
ReceiveRowan ==
    /\ pc = "overview"
    /\ Len(overview_data.objects) + Len(overview_data.rowan) < MaxPoints
    /\ \E c \in CoordLists :
          overview_data' = [overview_data EXCEPT !.rowan = Append(@, c)]
    /\ UNCHANGED <<pc, all_points, grid_size_deg, hot_zones, runvars, histvars>>
    /\ UNCHANGED scriptvars

(* all_points = extract_points_from_response(overview_data);
   hot_zones = simple_cluster_points(all_points, grid_size_deg) *)
Partition ==
    /\ pc = "overview"
    /\ all_points' = extract_points_from_response(overview_data)
    /\ hot_zones' = simple_cluster_points(all_points', grid_size_deg)
    /\ pc' = "partitioned"
    /\ UNCHANGED <<overview_data, grid_size_deg, runvars, histvars>>
    /\ UNCHANGED scriptvars

NextPartition == ReceiveObject \/ ReceiveRowan \/ Partition

SpecPartition == InitPartition /\ [][NextPartition]_vars

-----------------------------------------------------------------------------
(* Properties of the partitioner (SpecPartition) *)

Partitioned == pc = "partitioned" /\ ~hot_zones.raised

Zones == hot_zones.zones

InClosedBBox(point, bbox) ==
    /\ bbox[1] <= point[1] /\ point[1] <= bbox[3]
    /\ bbox[2] <= point[2] /\ point[2] <= bbox[4]

InHalfOpenBBox(point, bbox) ==
    /\ bbox[1] <= point[1] /\ point[1] < bbox[3]
    /\ bbox[2] <= point[2] /\ point[2] < bbox[4]

ClosedCover(point) == {j \in DOMAIN Zones : InClosedBBox(point, Zones[j].bbox)}

HalfOpenCover(point) == {j \in DOMAIN Zones : InHalfOpenBBox(point, Zones[j].bbox)}

(* C5, as claimed: whenever the partitioner returns, every input point lies
   inside the (closed) bounding box of exactly one emitted region *)
C5_ExactlyOneClosedBox ==
    Partitioned =>
        \A i \in DOMAIN all_points : Cardinality(ClosedCover(all_points[i])) = 1

(* C5, amended: whenever the partitioner returns, every input point lies in
   the closed bounding box of at least one emitted region and in exactly one
   emitted box taken half-open (lower edges included, upper edges excluded) *)
C5_CoverageHalfOpen ==
    Partitioned =>
        \A i \in DOMAIN all_points :
            /\ ClosedCover(all_points[i]) # {}
            /\ Cardinality(HalfOpenCover(all_points[i])) = 1

(* C5 witness: a returned partition in which a point sits on the shared edge
   of two emitted cells *)
C5_Witness ==
    /\ Partitioned
    /\ Len(Zones) >= 2
    /\ \E i \in DOMAIN all_points : Cardinality(ClosedCover(all_points[i])) >= 2

MinOf(S) == CHOOSE m \in S : \A x \in S : m <= x

FloorDiv(a, b) == CHOOSE q \in 0..a : q * b <= a /\ a < (q + 1) * b

ExpectedMinLon == MinOf({all_points[i][1] : i \in DOMAIN all_points})

ExpectedMinLat == MinOf({all_points[i][2] : i \in DOMAIN all_points})

ExpectedCell(point) ==
    <<FloorDiv(point[1] - ExpectedMinLon, grid_size_deg),
      FloorDiv(point[2] - ExpectedMinLat, grid_size_deg)>>

ExpectedRegion(cell) ==
    [bbox |-> <<ExpectedMinLon + cell[1] * grid_size_deg,
                ExpectedMinLat + cell[2] * grid_size_deg,
                ExpectedMinLon + (cell[1] + 1) * grid_size_deg,
                ExpectedMinLat + (cell[2] + 1) * grid_size_deg>>,
     points_count |->
        Cardinality({i \in DOMAIN all_points : ExpectedCell(all_points[i]) = cell})]

ExpectedRegions ==
    {ExpectedRegion(ExpectedCell(all_points[i])) : i \in DOMAIN all_points}

RECURSIVE SumCounts(_)
SumCounts(zones) ==
    IF zones = <<>> THEN 0 ELSE Head(zones).points_count + SumCounts(Tail(zones))

(* the scenario of the specification, in units of 0.01 degree:
   (10.0,20.0), (10.01,20.01), (15.0,25.0) with cell size 1.0 *)
ScenarioPoints == <<<<1000, 2000>>, <<1001, 2001>>, <<1500, 2500>>>>

(* C6: whenever the partitioner returns, it emits exactly one region per
   non-empty grid cell, the cell of a point being the integer quotient of its
   offset from the minimum corner by the cell size; each region is the
   size-by-size square at min + index * size and counts the points of its
   cell, so the counts add up to the number of points; the scenario with
   three points and cell size 1.0 yields 2 regions *)
C6_OneRegionPerCell ==
    /\ Partitioned /\ all_points # <<>> =>
        /\ {Zones[j] : j \in DOMAIN Zones} = ExpectedRegions
        /\ Len(Zones) = Cardinality(ExpectedRegions)
        /\ SumCounts(Zones) = Len(all_points)
        /\ \A j \in DOMAIN Zones :
              /\ Zones[j].bbox[3] - Zones[j].bbox[1] = grid_size_deg
              /\ Zones[j].bbox[4] - Zones[j].bbox[2] = grid_size_deg
              /\ Zones[j].points_count >= 1
    /\ Len(simple_cluster_points(ScenarioPoints, 100).zones) = 2

(* C6 witness: three points, two of them sharing a cell away from the
   minimum corner's cell *)
C6_Witness ==
    /\ Partitioned
    /\ Len(all_points) = 3
    /\ Len(Zones) = 2
    /\ \E j \in DOMAIN Zones : Zones[j].points_count = 2 /\ Zones[j].bbox[1] > 0

(* C7, as claimed: the partitioner never raises on a list of points produced
   by extraction (entries with at least two elements, possibly more); it
   returns no region for no point and one region for one point *)
C7_PartitionerTotal ==
    pc = "partitioned" /\ (\A i \in DOMAIN all_points : Len(all_points[i]) >= 2) =>
        /\ ~hot_zones.raised
        /\ (Len(all_points) = 0 => Len(Zones) = 0)
        /\ (Len(all_points) = 1 => Len(Zones) = 1)

-----------------------------------------------------------------------------
(* Properties of the discovery run (Spec) *)

Terminated == pc \in {"done", "exited", "crashed"}

UniqueKeys(d) == \A i, j \in DOMAIN d : d[i].key = d[j].key => i = j

(* C1: the accumulator, and the dict a finished run returns, hold at most one
   record per identifier *)
C1_NoDuplicateIds ==
    /\ UniqueKeys(all_scooters)
    /\ pc = "done" => UniqueKeys(result)

(* C1 witness: a finished run whose result holds several records, one of them
   under the id of a cluster that a cell scan and an expansion both returned *)
C1_Witness ==
    /\ pc = "done"
    /\ Len(result) >= 2
    /\ \E a, b \in returned_clusters :
          /\ a.stage = 3 /\ b.stage = 4
          /\ a.cluster.id = b.cluster.id
          /\ DictHas(result, a.cluster.id)

MergedIds == {id \in AllIds : last_merged[id] # NoRecord}

StoredIds == DictKeys(all_scooters) \ {"__metadata__"}

(* C2, as claimed: the accumulator holds exactly one record for every id
   merged so far, and it is the record most recently merged under that id *)
C2_LastWriteWins ==
    /\ UniqueKeys(all_scooters)
    /\ StoredIds = MergedIds
    /\ \A id \in MergedIds : DictGet(all_scooters, id) = last_merged[id]

(* C2, amended: the accumulator holds exactly one record for every id merged
   so far; it is the record most recently merged under that id, except that
   a scooter returned by a cluster expansion never replaces a record already
   stored under its id (the earlier record is kept) *)
C2_LastWriteWinsButExpandedScooters ==
    /\ UniqueKeys(all_scooters)
    /\ StoredIds = MergedIds
    /\ \A id \in MergedIds : DictGet(all_scooters, id) = last_overwrite[id]

(* C2 witness: a finished run in which an expansion returned a scooter whose
   id a cell scan had stored with a different content *)
C2_Witness ==
    /\ pc = "done"
    /\ \E id \in MergedIds :
          /\ IsScooterId(id)
          /\ last_merged[id] # last_overwrite[id]
          /\ DictGet(result, id) = last_overwrite[id]

(* C3: merging a record a second time leaves the accumulator as the first
   merge left it, for the cell-scan merges and for the expansion merges, in
   every accumulator state a run reaches (a run that has ended holds the
   accumulator of its last step) *)
C3_IdempotentMerge ==
    Terminated \/
    /\ \A r \in ScooterRecords :
          /\ MergeCellScooter(MergeCellScooter(all_scooters, r), r)
                = MergeCellScooter(all_scooters, r)
          /\ MergeExpandedScooter(MergeExpandedScooter(all_scooters, r), r)
                = MergeExpandedScooter(all_scooters, r)
    /\ \A r \in ClusterRecords :
          /\ MergeCellCluster(MergeCellCluster(all_scooters, r), r)
                = MergeCellCluster(all_scooters, r)
          /\ MergeSubCluster(MergeSubCluster(all_scooters, r), r)
                = MergeSubCluster(all_scooters, r)
          /\ StoreUnexpanded(StoreUnexpanded(all_scooters, r), r)
                = StoreUnexpanded(all_scooters, r)

(* C3 witness: an accumulator with several records, one of them stored under
   the id of a record whose content differs, so that merging it overwrites *)
C3_Witness ==
    /\ pc = "stage4"
    /\ Len(all_scooters) >= 2
    /\ \E r \in ScooterRecords :
          DictHas(all_scooters, r.id) /\ DictGet(all_scooters, r.id) # r

(* C4: no step of a run removes an identifier from the accumulator *)
C4_GrowsMonotonically ==
    [][DictKeys(all_scooters) \subseteq DictKeys(all_scooters')]_vars

(* C4 witness: a finished run whose accumulator grew in the cell scan, in the
   expansion (a queued cluster stored after a failed request) and in stage 5 *)
C4_Witness ==
    /\ pc = "done"
    /\ Len(result) >= 3
    /\ DictHas(result, "__metadata__")
    /\ \E e \in DOMAIN all_clusters_to_process :
          DictHas(result, all_clusters_to_process[e].id)

ExpansionQueriesFor(cluster) ==
    {k \in DOMAIN issued :
        /\ issued[k].stage = 4
        /\ issued[k].cluster = cluster
        /\ issued[k].user_location = cluster.geo}

(* C8, as claimed: in a finished run a cluster (with coordinates) returned by
   a cell scan or by an expansion has an expansion request centred on it
   exactly when its objects_count is at least min_cluster_size *)
C8_ThresholdPolicy ==
    pc = "done" =>
        \A rc \in returned_clusters :
            rc.cluster.geo # <<>> =>
                (IsLargeCluster(rc.cluster) <=> ExpansionQueriesFor(rc.cluster) # {})

(* C9, as claimed: in a finished run every cluster at or above the threshold
   that an expansion returned has been queried again, around its own centre
   and at a zoom above that of the expansion *)
C9_RecursiveExpansion ==
    pc = "done" =>
        \A rc \in returned_clusters :
            rc.stage = 4 /\ rc.cluster.geo # <<>> /\ IsLargeCluster(rc.cluster) =>
                \E k \in ExpansionQueriesFor(rc.cluster) : issued[k].zoom > ExpandZoom

Width(bbox) == bbox[3] - bbox[1]

Height(bbox) == bbox[4] - bbox[2]

(* C10: every queued aggregate gets at most maxZoom - startZoom expansion
   requests (expansion zoom 19, cell zoom 17); every request has a higher
   zoom than the request whose response led to it (12, then 17, then 19);
   an expansion request covers a strictly smaller box than the cell request
   that returned its aggregate; the run issues no more than one overview
   request, one request per cell and the bounded expansion requests *)
C10_ExpansionBounded ==
    /\ \A e \in DOMAIN all_clusters_to_process :
          Cardinality({k \in DOMAIN issued : issued[k].stage = 4 /\ issued[k].entry = e})
              <= ExpandZoom - CellZoom
    /\ \A k \in DOMAIN issued :
          /\ issued[k].zoom = (CASE issued[k].stage = 1 -> 12
                                 [] issued[k].stage = 3 -> 17
                                 [] issued[k].stage = 4 -> 19)
          /\ issued[k].parent # 0 =>
                /\ issued[k].parent < k
                /\ issued[k].zoom > issued[issued[k].parent].zoom
          /\ issued[k].stage = 4 =>
                /\ issued[issued[k].parent].stage = 3
                /\ Width(issued[k].bbox) < Width(issued[issued[k].parent].bbox)
                /\ Height(issued[k].bbox) < Height(issued[issued[k].parent].bbox)
    /\ Len(issued) <= 1 + Len(hot_zones.zones)
                        + Len(all_clusters_to_process) * (ExpandZoom - CellZoom)

(* C10 witness: a finished run that expanded two queued aggregates *)
C10_Witness ==
    /\ pc = "done"
    /\ Cardinality({k \in DOMAIN issued : issued[k].stage = 4}) >= 2

-----------------------------------------------------------------------------
(* Properties of the failure handling of the run (Spec) *)

LastOutcome(kinds) == kinds[Len(kinds)]

(* this step issued a query of the given stage and met the given outcome *)
QueryStep(stage, kind) ==
    /\ Len(issued') = Len(issued) + 1
    /\ issued'[Len(issued')].stage = stage
    /\ LastOutcome(outcomes') = kind

ExpansionQueriesOfEntry(e) ==
    {k \in DOMAIN issued : issued[k].stage = 4 /\ issued[k].entry = e}

(* C11: when the expansion request of a queued cluster fails transiently
   (fetch_scooters returns None), that step stores the queued cluster itself
   under its own id and leaves every other entry of the accumulator as it
   was, the run neither exits nor crashes and moves on to the next queued
   cluster; a run that gets past stage 4 has issued an expansion request for
   every queued cluster that has coordinates *)
C11_FailedExpansionKeepsCluster ==
    /\ [][QueryStep(4, "error") =>
            LET cluster == all_clusters_to_process[cluster_i]
            IN  /\ cluster.id # "" =>
                      /\ DictHas(all_scooters', cluster.id)
                      /\ DictGet(all_scooters', cluster.id) = cluster
                      /\ DictKeys(all_scooters') = DictKeys(all_scooters) \cup {cluster.id}
                /\ \A k \in DictKeys(all_scooters) \ {cluster.id} :
                      DictHas(all_scooters', k)
                          /\ DictGet(all_scooters', k) = DictGet(all_scooters, k)
                /\ pc' \notin {"exited", "crashed"}
                /\ cluster_i' = cluster_i + 1
                /\ cluster_i < Len(all_clusters_to_process) => pc' = "stage4"]_vars
    /\ [](pc \in {"stage5", "return"} \/ (pc = "done" /\ hot_zones.zones # <<>>) =>
            \A e \in DOMAIN all_clusters_to_process :
                all_clusters_to_process[e].geo # <<>> => ExpansionQueriesOfEntry(e) # {})

(* C11 witness: a finished run in which the expansion of one queued cluster
   failed transiently, a later queued cluster was expanded successfully, and
   the result holds the unexpanded cluster *)
C11_Witness ==
    /\ pc = "done"
    /\ \E k, j \in DOMAIN issued :
          /\ k < j
          /\ issued[k].stage = 4 /\ outcomes[k] = "error"
          /\ issued[j].stage = 4 /\ outcomes[j] = "ok"
          /\ DictHas(result, issued[k].cluster.id)
          /\ DictGet(result, issued[k].cluster.id) = issued[k].cluster

AuthRejected == \E k \in DOMAIN outcomes : outcomes[k] = "auth"

(* C12, as claimed: once a discovery request has been rejected with HTTP 405,
   401 or 403 the run is over and the caller has received the accumulator as
   it was filled up to the rejection (the records of the cells merged before
   it) *)
C12_AbortHandsOverPartialResult ==
    AuthRejected => Terminated /\ result = all_scooters

(* C13: a request rejected with HTTP 405, 401 or 403 is the last request of
   the run: the process exits at once, no further query is issued, and the
   cells and queued clusters that remain are never looked at *)
C13_NoQueryAfterRejection ==
    /\ [](\A k \in DOMAIN outcomes :
             outcomes[k] = "auth" => k = Len(issued) /\ pc = "exited")
    /\ [][AuthRejected =>
             issued' = issued /\ zone_i' = zone_i /\ cluster_i' = cluster_i]_vars

(* C13 witness: the request of a cell was rejected while a further cell was
   still to be scanned *)
C13_Witness ==
    /\ pc = "exited"
    /\ issued[Len(issued)].stage = 3
    /\ outcomes[Len(issued)] = "auth"
    /\ zone_i < Len(hot_zones.zones)

SameRegion(a, b) == a.stage = b.stage /\ a.bbox = b.bbox /\ a.entry = b.entry

Attempts(k) == {j \in DOMAIN issued : SameRegion(issued[j], issued[k])}

(* C14, as claimed: a request that failed transiently is repeated before its
   region is given up: once the run has gone on to another request, or has
   ended, every transiently failed request belongs to a region that was
   requested at least twice; and such a failure never ends the run by itself *)
C14_TransientFailureRetried ==
    \A k \in DOMAIN outcomes :
        outcomes[k] = "error" =>
            /\ pc \notin {"exited", "crashed"} \/ k < Len(issued)
            /\ k < Len(issued) \/ Terminated => Cardinality(Attempts(k)) >= 2

QueriesOfStage(stage) == {k \in DOMAIN issued : issued[k].stage = stage}

(* C15: the stages come in order and the end is final: a cell request is
   issued only after the overview request succeeded with at least one point;
   an expansion request is issued only after every cell of hot_zones has been
   requested, and no cell request follows it; a run that has returned, exited
   or crashed issues no further request and no longer changes the accumulator
   or the returned dict *)
C15_StagesInOrder ==
    /\ [](\A k \in QueriesOfStage(3) :
             /\ k > 1 /\ issued[1].stage = 1 /\ outcomes[1] = "ok"
             /\ Len(all_points) >= 1)
    /\ [](\A k \in QueriesOfStage(4) :
             /\ Cardinality({j \in QueriesOfStage(3) : j < k}) = Len(hot_zones.zones)
             /\ \A j \in QueriesOfStage(3) : j < k)
    /\ [](Cardinality(QueriesOfStage(1)) <= 1
             /\ Cardinality(QueriesOfStage(3)) <= Len(hot_zones.zones))
    /\ [][Terminated =>
             /\ pc' = pc
             /\ issued' = issued
             /\ all_scooters' = all_scooters
             /\ result' = result]_vars

(* C15 witness: a run that returned after requesting two cells and then
   expanding a queued cluster *)
C15_Witness ==
    /\ pc = "done"
    /\ result # <<>>
    /\ Cardinality(QueriesOfStage(3)) = 2
    /\ Cardinality(QueriesOfStage(4)) >= 1

OverviewWithoutPoints ==
    /\ outcomes # <<>>
    /\ outcomes[1] = "ok"
    /\ extract_points_from_response(overview_data) = <<>>

(* C16: when the overview request succeeds and its response holds no point,
   that very step ends the run normally (neither exit nor crash) with an
   empty result: no partition is computed, the accumulator stays empty, and
   the overview request is the only request of the run *)
C16_NoPointsEndsRun ==
    /\ [][pc = "start" /\ OverviewWithoutPoints' =>
             /\ pc' = "done"
             /\ result' = <<>>
             /\ hot_zones' = NotComputed /\ zone_i' = 0]_vars
    /\ [](OverviewWithoutPoints =>
             /\ pc = "done"
             /\ result = <<>> /\ all_scooters = <<>>
             /\ Len(issued) = 1 /\ issued[1].stage = 1)

(* C16 witness: a run that returned after a successful overview without
   points *)
C16_Witness ==
    /\ pc = "done"
    /\ outcomes = <<"ok">>
    /\ overview_data \in RunOverviews
    /\ all_points = <<>>
    /\ result = <<>>

InQueue(cluster) ==
    \E e \in DOMAIN all_clusters_to_process : all_clusters_to_process[e] = cluster

(* C17, as claimed: every record with an id that a cell scan returned has
   been collected: a scooter is in the accumulator, a cluster at or above the
   threshold is in the expansion queue, a cluster below the threshold is in
   the accumulator, and an empty-cluster record is in the accumulator *)
C17_CellScanCollectsEverything ==
    \A r \in returned_records :
        r.stage = 3 /\ r.record.id # "" =>
            CASE r.type = "scooter" -> DictHas(all_scooters, r.record.id)
              [] r.type = "cluster" /\ IsLargeCluster(r.record) -> InQueue(r.record)
              [] r.type = "cluster" /\ ~IsLargeCluster(r.record) ->
                    DictHas(all_scooters, r.record.id)
              [] r.type = "cluster_empty" -> DictHas(all_scooters, r.record.id)

Records(d) == {d[i] : i \in {j \in DOMAIN d : d[j].key # "__metadata__"}}

(* C18, as claimed: every record in the accumulator has a non-empty id and a
   (longitude, latitude) point, at every point of the run *)
C18_StoredRecordsHaveIdAndPoint ==
    \A e \in Records(all_scooters) :
        /\ e.val.id # "" /\ e.key = e.val.id
        /\ Len(e.val.geo) = 2

(* C18, amended: every record in the accumulator has a non-empty id and is
   stored under it (a record returned without an id is never stored); a
   record with an id and without coordinates is stored, and is left out only
   when the returned dict is written: the written features are exactly the
   returned records that have coordinates (without the clusters in full_info
   mode), each with its id and its coordinates *)
C18_StoredRecordsHaveId ==
    /\ \A e \in Records(all_scooters) : e.val.id # "" /\ e.key = e.val.id
    /\ pc = "done" =>
          LET features == Features(result, with_full_info)
          IN  /\ \A i \in DOMAIN features :
                    /\ features[i].id # ""
                    /\ features[i].coordinates # <<>>
                    /\ DictHas(result, features[i].id)
                    /\ DictGet(result, features[i].id).geo = features[i].coordinates
              /\ \A e \in Records(result) :
                    e.val.geo # <<>> /\ ~(with_full_info /\ IsClusterId(e.key)) =>
                        \E i \in DOMAIN features : features[i].id = e.key
              /\ Len(features) <= Len(result)

(* C18 witness: a finished run that was handed a record without an id, which
   it dropped, and a record without coordinates, which it stored and which
   is not among the written features *)
C18_Witness ==
    /\ pc = "done"
    /\ \E r \in returned_records : r.record.id = ""
    /\ \E e \in Records(result) : e.val.geo = <<>>
    /\ Len(Features(result, with_full_info)) < Len(result)

(* C19, as claimed: no response to a cell or expansion request makes the run
   crash, a response that parses but lacks the expected structure included *)
C19_BadRegionNeverCrashes ==
    \A k \in DOMAIN outcomes :
        issued[k].stage \in {3, 4} /\ outcomes[k] = "malformed" => pc # "crashed"

-----------------------------------------------------------------------------
(* The loops of stages 3 and 4 taken in another order, on the responses the
   run received *)

(* the body of the stage 3 loop, as far as the accumulator goes *)
CellStep(acc, resp) ==
    IF ReturnsNone(resp) THEN acc
    ELSE MergeCell(acc, extract_detailed_objects(resp))

(* the body of the stage 4 loop *)
ClusterStep(acc, cluster, resp) ==
    IF cluster.geo = <<>> THEN acc
    ELSE IF ReturnsNone(resp) THEN StoreUnexpanded(acc, cluster)
    ELSE MergeExpansion(acc, extract_detailed_objects(resp))

(* the response to the expansion request of queue entry e *)
AnswerOfEntry(e) ==
    IF ExpansionQueriesOfEntry(e) = {} THEN Failure("error")
    ELSE answers[CHOOSE k \in ExpansionQueriesOfEntry(e) : TRUE]

(* for zone in hot_zones, the cells taken in the order of the requests
   listed *)
RECURSIVE ReplayCells(_, _)
ReplayCells(order, acc) ==
    IF order = <<>> THEN acc
    ELSE ReplayCells(Tail(order), CellStep(acc, answers[Head(order)]))

(* for cluster in all_clusters_to_process, the entries taken in the order
   listed *)
RECURSIVE ReplayQueue(_, _)
ReplayQueue(order, acc) ==
    IF order = <<>> THEN acc
    ELSE ReplayQueue(Tail(order),
                     ClusterStep(acc, all_clusters_to_process[Head(order)],
                                 AnswerOfEntry(Head(order))))

Perms(S) ==
    {f \in [1..Cardinality(S) -> S] : \A i, j \in 1..Cardinality(S) : f[i] = f[j] => i = j}

(* every id was returned with one and the same record in all responses *)
StableRecords ==
    \A a, b \in returned_records :
        a.record.id = b.record.id /\ a.record.id # "" => a.record = b.record

(* the loops of stages 3 and 4 (and stage 5) are over, the dict is about to
   be returned *)
LoopsCompleted == pc = "return"

(* C20: when every id came with the same record in all the responses of a
   run that completed its loops, taking the cells in any other order and the
   queued clusters in any other order, with the same response for each cell
   and each queued cluster, gives the same final mapping from id to record *)
C20_OrderIndependent ==
    LoopsCompleted /\ StableRecords =>
        \A cells \in Perms(QueriesOfStage(3)) :
            LET after_cells == ReplayCells(cells, <<>>)
            IN  \A queue \in Perms(DOMAIN all_clusters_to_process) :
                    Records(ReplayQueue(queue, after_cells)) = Records(all_scooters)

(* C20 witness: a run about to return, with stable records, in which two
   cells each queued a cluster, one expansion failed and the other returned
   records *)
C20_Witness ==
    /\ pc = "return"
    /\ StableRecords
    /\ Cardinality(QueriesOfStage(3)) = 2
    /\ Len(all_clusters_to_process) = 2
    /\ queued_from[1] # queued_from[2]
    /\ \E k, j \in QueriesOfStage(4) : outcomes[k] = "error" /\ outcomes[j] = "ok"
    /\ Len(all_scooters) >= 2

-----------------------------------------------------------------------------
(* Properties of the expansion stage as a whole (Spec) *)

(* no cell scan returned a cluster whose objects_count reaches the threshold *)
NoLargeClusterSeen ==
    \A rc \in returned_clusters :
        rc.stage = 3 => rc.cluster.objects_count < MinClusterSize

(* the requests of the cells, in the order the run issued them *)
CellOrder == [i \in 1..Cardinality(QueriesOfStage(3)) |-> i + 1]

(* C21: when no cell scan returned a cluster at or above the threshold the
   expansion queue is empty, stage 4 is never entered and no zoom-19 request
   is issued; the dict returned (without full-info mode) is the accumulator
   as the cell scans left it *)
C21_ExpansionSkipped ==
    NoLargeClusterSeen =>
        /\ all_clusters_to_process = <<>>
        /\ pc # "stage4"
        /\ \A k \in DOMAIN issued : issued[k].stage # 4 /\ issued[k].zoom # ExpandZoom
        /\ pc \in {"stage5", "return"} \/ (pc = "done" /\ hot_zones.zones # <<>>) =>
              Records(all_scooters) = Records(ReplayCells(CellOrder, <<>>))
        /\ pc = "done" /\ ~with_full_info /\ hot_zones.zones # <<>> =>
              result = ReplayCells(CellOrder, <<>>)

(* C21 witness: a run that scanned two cells, stored what they returned,
   among it a cluster below the threshold, queued nothing and returned *)
C21_Witness ==
    /\ pc = "done"
    /\ ~with_full_info
    /\ Cardinality(QueriesOfStage(3)) = 2
    /\ all_clusters_to_process = <<>>
    /\ \E rc \in returned_clusters : rc.cluster.id # ""
    /\ Len(result) >= 2

(* the ids of the records with an id in the response to the expansion of
   queue entry e *)
ExpansionIds(e) ==
    LET resp == AnswerOfEntry(e)
    IN  {resp.scooters[i].id : i \in DOMAIN resp.scooters}
            \cup {resp.clusters[i].id : i \in DOMAIN resp.clusters}

(* C22, as claimed: in the dict a completed run returns, every cluster that
   a cell scan queued for expansion is present itself or is replaced by at
   least one record of its expansion *)
C22_QueuedClusterResolved ==
    pc = "done" /\ hot_zones.zones # <<>> =>
        \A e \in DOMAIN all_clusters_to_process :
            \/ DictHas(result, all_clusters_to_process[e].id)
            \/ /\ ExpansionQueriesOfEntry(e) # {}
               /\ \E id \in ExpansionIds(e) \ {""} : DictHas(result, id)

CellQueries(z) ==
    {k \in QueriesOfStage(3) : issued[k].bbox = hot_zones.zones[z].bbox}

(* C23, as claimed: a run issues at most one overview request, one request
   per non-empty grid cell and one per queued cluster; it always ends by
   returning, and when it has returned after the cell scans every cell and
   every queued cluster has been requested exactly once *)
C23_BoundedRequestsThenReturn ==
    /\ Len(issued) <= 1 + Len(hot_zones.zones) + Len(all_clusters_to_process)
    /\ Terminated => pc = "done"
    /\ pc = "done" /\ hot_zones.zones # <<>> =>
          /\ \A z \in DOMAIN hot_zones.zones : Cardinality(CellQueries(z)) = 1
          /\ \A e \in DOMAIN all_clusters_to_process :
                Cardinality(ExpansionQueriesOfEntry(e)) = 1

-----------------------------------------------------------------------------
(* fetch_scooters.py is not running: the state a specification of another
   script starts from *)
DiscoveryIdle ==
    /\ overview_data = NoOverview
    /\ grid_size_deg = GridSizeDeg
    /\ all_points = <<>>
    /\ hot_zones = NotComputed
    /\ with_full_info = FALSE
    /\ zone_i = 0
    /\ all_scooters = <<>>
    /\ all_clusters_to_process = <<>>
    /\ cluster_i = 0
    /\ full_info = {}
    /\ result = <<>>
    /\ upstream_left = 0
    /\ issued = <<>>
    /\ outcomes = <<>>
    /\ answers = <<>>
    /\ queued_from = <<>>
    /\ returned_clusters = {}
    /\ returned_records = {}
    /\ last_merged = NoMerges
    /\ last_overwrite = NoMerges

-----------------------------------------------------------------------------
(* The zone-fetching retry loop: fetch_city_zones of fetch_all_zones.py, with
   the loop of main that calls it once per city.  fetch_city_rent_zones and
   fetch_rent_zone_restrictions of fetch_all_restrictions.py have the same
   loop, statement for statement. *)

MaxCities == 3

MaxRetryCount == 3

CityIds == [i \in 1..MaxCities |-> i]

(* Python's None *)
None == [kind |-> "none"]

(* response.json() of a request that succeeded: the zones under 'data' *)
ZonesOf(city_id) == {[kind |-> "ok", data |-> <<>>], [kind |-> "ok", data |-> <<city_id>>]}

(* wait_time = (attempt + 1) * 2 *)
WaitTime(a) == (a + 1) * 2

ShouldWaitAlways(a, count) == TRUE

(* if attempt < retry_count - 1 *)
ShouldWait(a, count) == a < count - 1

InitRetry ==
    /\ pc = "main"
    /\ DiscoveryIdle
    /\ ScriptsIdle("fetch_all_zones")
    /\ \E n \in 0..MaxCities : available_city_ids = SubSeq(CityIds, 1, n)
    /\ retry_count \in 0..MaxRetryCount
    /\ city_n = 0
    /\ attempt = 0
    /\ zones_response = None
    /\ all_zones = <<>>
    /\ failed_count = 0
    /\ tried = <<>>
    /\ slept = <<>>
    /\ calls = <<>>

(* main: zones_response = fetch_city_zones(city_id, bearer_token), entering
   for attempt in range(retry_count) *)
CallFetchCityZones ==
    /\ pc = "main"
    /\ city_n < Len(available_city_ids)
    /\ attempt' = 0
    /\ tried' = <<>>
    /\ slept' = <<>>
    /\ pc' = "attempt"
    /\ UNCHANGED <<available_city_ids, retry_count, city_n, zones_response, all_zones,
                   failed_count, calls>>
    /\ UNCHANGED <<partvars_rest, runvars, histvars, zonesvars, citiesvars, parkvars, mainvars>>

(* one iteration: the request succeeds and its json is returned *)
AttemptSucceeds ==
    /\ pc = "attempt"
    /\ attempt < retry_count
    /\ \E resp \in ZonesOf(available_city_ids[city_n + 1]) : zones_response' = resp
    /\ tried' = Append(tried, "ok")
    /\ pc' = "returned"
    /\ UNCHANGED <<available_city_ids, retry_count, city_n, attempt, all_zones,
                   failed_count, slept, calls>>
    /\ UNCHANGED <<partvars_rest, runvars, histvars, zonesvars, citiesvars, parkvars, mainvars>>

(* one iteration: requests.get or raise_for_status raises a RequestException *)
AttemptFails ==
    /\ pc = "attempt"
    /\ attempt < retry_count
    /\ tried' = Append(tried, "fail")
    /\ IF ShouldWait(attempt, retry_count)
       THEN /\ slept' = Append(slept, WaitTime(attempt))
            /\ attempt' = attempt + 1
            /\ UNCHANGED <<pc, zones_response>>
       ELSE /\ zones_response' = None
            /\ pc' = "returned"
            /\ UNCHANGED <<attempt, slept>>
    /\ UNCHANGED <<available_city_ids, retry_count, city_n, all_zones, failed_count, calls>>
    /\ UNCHANGED <<partvars_rest, runvars, histvars, zonesvars, citiesvars, parkvars, mainvars>>

(* range(retry_count) is exhausted: the return None after the loop *)
LoopFallsThrough ==
    /\ pc = "attempt"
    /\ attempt >= retry_count
    /\ zones_response' = None
    /\ pc' = "returned"
    /\ UNCHANGED <<available_city_ids, retry_count, city_n, attempt, all_zones,
                   failed_count, tried, slept, calls>>
    /\ UNCHANGED <<partvars_rest, runvars, histvars, zonesvars, citiesvars, parkvars, mainvars>>

(* main: if zones_response and zones_response.get('data'): extend all_zones,
   else count the failure; then the next city *)
HandleZonesResponse ==
    /\ pc = "returned"
    /\ IF zones_response # None /\ zones_response.data # <<>>
       THEN /\ all_zones' = all_zones \o zones_response.data
            /\ UNCHANGED failed_count
       ELSE /\ failed_count' = failed_count + 1
            /\ UNCHANGED all_zones
    /\ calls' = Append(calls, [tried |-> tried, slept |-> slept, returned |-> zones_response])
    /\ city_n' = city_n + 1
    /\ pc' = IF city_n' = Len(available_city_ids) THEN "converted" ELSE "main"
    /\ UNCHANGED <<available_city_ids, retry_count, attempt, zones_response, tried, slept>>
    /\ UNCHANGED <<partvars_rest, runvars, histvars, zonesvars, citiesvars, parkvars, mainvars>>

NextRetry ==
    CallFetchCityZones \/ AttemptSucceeds \/ AttemptFails \/ LoopFallsThrough
        \/ HandleZonesResponse

SpecRetry == InitRetry /\ [][NextRetry]_vars

(* the sleeps of a call that made n requests so far, all failed: 2, 4, ... *)
Backoff(n) == [k \in 1..n |-> 2 * k]

AllFailed(outcomes_of_call) == \A k \in DOMAIN outcomes_of_call : outcomes_of_call[k] = "fail"

(* C24: a call makes at most retry_count requests; it sleeps 2, 4, ... seconds
   and only between two requests, never after the last one; a request that
   succeeds ends the call with its response; a call whose retry_count requests
   all failed returns None, and main goes on to the next city, so that the
   run ends with one finished call per city. *)
C24_BoundedRetryWithBackoff ==
    /\ Len(tried) <= retry_count
    /\ pc = "attempt" => AllFailed(tried) /\ slept = Backoff(Len(tried))
    /\ \A c \in DOMAIN calls :
          LET call == calls[c]
              n == Len(call.tried)
          IN  /\ n <= retry_count
              /\ AllFailed(SubSeq(call.tried, 1, n - 1))
              /\ call.slept = Backoff(IF n = 0 THEN 0 ELSE n - 1)
              /\ \A k \in 1..(Len(call.slept) - 1) : call.slept[k] < call.slept[k + 1]
              /\ n > 0 /\ call.tried[n] = "ok" => call.returned.kind = "ok"
              /\ AllFailed(call.tried) => n = retry_count /\ call.returned = None
    /\ pc = "converted" => Len(calls) = Len(available_city_ids)

C24_Witness ==
    /\ pc = "converted"
    /\ retry_count = 3
    /\ Len(calls) = 2
    /\ calls[1].tried = <<"fail", "fail", "fail">>
    /\ calls[1].slept = <<2, 4>>
    /\ calls[1].returned = None
    /\ calls[2].tried = <<"fail", "ok">>
    /\ calls[2].slept = <<2>>
    /\ all_zones = <<2>>

-----------------------------------------------------------------------------
(* fetch_zones.py: main without --city loads the zones of every city of
   cities.geojson, optionally from city number --continue_from on, and
   breaks with a printed --continue_from value on a failure.  The re-run
   with the printed value is part of the model. *)

(* cities.geojson holds one feature per polygon id *)
CityList == [i \in 1..MaxCities |-> i]

(* what fetch_city_zones of fetch_zones.py meets: HTTP 405, another failure
   that returns None (401, 403, RequestException, not a FeatureCollection), a
   FeatureCollection without features, one with features *)
ZoneFetchKinds == {"405", "error", "empty", "ok"}

(* fetch_city_zones(...) is None *)
ZonesIsNone(kind) == kind \in {"405", "error"}

(* cities.index(city) + 1 *)
GlobalIdx(city) == (CHOOSE i \in DOMAIN cities : cities[i] = city /\ \A j \in 1..(i - 1) : cities[j] # city)

(* if failed > 0 and idx > 1 *)
StopsOnFailure(failed_now, i) == failed_now > 0 /\ i > 1

InitZones ==
    /\ pc = "zones_main"
    /\ DiscoveryIdle
    /\ ScriptsIdle("fetch_zones")
    /\ \E n \in 1..MaxCities : cities = SubSeq(CityList, 1, n)
    /\ continue_from \in 0..(MaxCities + 1)
    /\ cities_to_process = <<>>
    /\ idx = 0
    /\ failed = 0
    /\ printed = 0
    /\ token_expired = FALSE
    /\ run = 1
    /\ fetch_log = <<>>

(* main: cities_to_process = cities, or cities[start_idx:] with --continue_from;
   sys.exit(1) when the city does not exist *)
StartZonesRun ==
    /\ pc = "zones_main"
    /\ IF continue_from # 0 /\ continue_from - 1 >= Len(cities)
       THEN /\ pc' = "exited"
            /\ UNCHANGED <<cities_to_process, idx>>
       ELSE /\ cities_to_process' =
                  IF continue_from # 0 THEN SubSeq(cities, continue_from, Len(cities))
                  ELSE cities
            /\ idx' = 1
            /\ pc' = IF cities_to_process' = <<>> THEN "zones_end" ELSE "zones_loop"
    /\ UNCHANGED <<cities, continue_from, failed, printed, token_expired, run, fetch_log>>
    /\ UNCHANGED <<partvars_rest, runvars, histvars, retryvars, citiesvars, parkvars, mainvars>>

(* one iteration of for idx, city in enumerate(cities_to_process, start=1) *)
FetchZonesOfCity ==
    /\ pc = "zones_loop"
    /\ \E kind \in (IF token_expired THEN {"405"} ELSE ZoneFetchKinds) :
          LET city == cities_to_process[idx]
              global_idx == GlobalIdx(city)
              last == idx = Len(cities_to_process)
          IN  /\ fetch_log' = Append(fetch_log, [run |-> run, city |-> city, kind |-> kind])
              /\ token_expired' = (token_expired \/ kind = "405")
              /\ IF ZonesIsNone(kind)
                 THEN /\ failed' = failed + 1
                      /\ IF StopsOnFailure(failed', idx)
                         THEN /\ printed' = global_idx
                              /\ pc' = "zones_end"
                              /\ UNCHANGED idx
                         ELSE /\ idx' = idx + 1
                              /\ pc' = IF last THEN "zones_end" ELSE "zones_loop"
                              /\ UNCHANGED printed
                 ELSE /\ idx' = idx + 1
                      /\ pc' = IF last THEN "zones_end" ELSE "zones_loop"
                      /\ UNCHANGED <<failed, printed>>
    /\ UNCHANGED <<cities, continue_from, cities_to_process, run>>
    /\ UNCHANGED <<partvars_rest, runvars, histvars, retryvars, citiesvars, parkvars, mainvars>>

(* the operator renews the token and runs
   python3 fetch_zones.py --continue_from <printed value> *)
RerunWithPrinted ==
    /\ pc = "zones_end"
    /\ run = 1
    /\ printed # 0
    /\ run' = 2
    /\ continue_from' = printed
    /\ cities_to_process' = <<>>
    /\ idx' = 0
    /\ failed' = 0
    /\ printed' = 0
    /\ token_expired' = FALSE
    /\ pc' = "zones_main"
    /\ UNCHANGED <<cities, fetch_log>>
    /\ UNCHANGED <<partvars_rest, runvars, histvars, retryvars, citiesvars, parkvars, mainvars>>

NextZones == StartZonesRun \/ FetchZonesOfCity \/ RerunWithPrinted

SpecZones == InitZones /\ [][NextZones]_vars

RequestsOfRun(r) == {k \in DOMAIN fetch_log : fetch_log[k].run = r}

ExpiredIn(r) == {k \in RequestsOfRun(r) : fetch_log[k].kind = "405"}

FirstOf(S) == CHOOSE k \in S : \A j \in S : k <= j

(* C25: a request that meets HTTP 405 is the last request of its run,
   whatever the position of its city; the re-run with the printed value
   requests the cities in list order starting with the city that met the 405,
   and requests no city that the first run loaded successfully. *)
C25_StopsAtExpiryAndResumesThere ==
    /\ \A r \in {1, 2} : \A k \in ExpiredIn(r) : \A j \in RequestsOfRun(r) : j <= k
    /\ ExpiredIn(1) # {} =>
          LET first_failed == fetch_log[FirstOf(ExpiredIn(1))].city
          IN  \A k \in RequestsOfRun(2) :
                 /\ fetch_log[k].city = first_failed + (k - FirstOf(RequestsOfRun(2)))
                 /\ \A j \in RequestsOfRun(1) :
                       fetch_log[j].kind \in {"ok", "empty"} => fetch_log[j].city # fetch_log[k].city
    /\ ExpiredIn(1) # {} /\ run = 2 /\ pc = "zones_end" /\ ExpiredIn(2) = {} /\ printed = 0 =>
          LET first_failed == fetch_log[FirstOf(ExpiredIn(1))].city
          IN  {fetch_log[k].city : k \in RequestsOfRun(2)} = first_failed..Len(cities)

-----------------------------------------------------------------------------
(* fetch_cities.py: the world-grid scan.  Stage 1 requests the squares known
   to hold a city, stage 2 (with --search_new) the other squares; the
   polygons of the responses are merged into all_polygons by id. *)

MaxSquares == 3

SquareIds == 1..MaxSquares

(* a square of grid_3x3.geojson; polygon_count 0 stands for an absent key *)
Square(id, has_city, tested, polygon_count) ==
    [id |-> id, has_city |-> has_city, tested |-> tested, polygon_count |-> polygon_count]

(* the grids the scan starts from: every square known or not *)
ScanGrids ==
    {[i \in SquareIds |-> Square(i, known[i], known[i], IF known[i] THEN 1 ELSE 0)] :
        known \in [SquareIds -> BOOLEAN]}

(* a scooters_polygon feature as returned for a square; two features with one
   id differ in the square that returned them *)
PolygonFeature(id, square) == [id |-> id, seen_in |-> square]

(* the scooters_polygon features of a response, by polygon id ("" for a
   feature without id) *)
PolygonLists == {<<>>, <<"p1">>, <<"p2", "p1">>, <<"", "p1">>}

(* what fetch_cities_in_region returns: ([], message) for HTTP 405, ([],
   message) for another failure, (scooters_polygons, None) *)
RegionAnswers(square) ==
    {[kind |-> "405", polygons |-> <<>>], [kind |-> "error", polygons |-> <<>>]}
      \cup {[kind |-> "ok", polygons |-> [k \in DOMAIN ids |-> PolygonFeature(ids[k], square)]] :
               ids \in PolygonLists}

(* if error *)
HasError(answer) == answer.kind # "ok"

(* if "HTTP 405" in error: break *)
BreaksOn405(answer) == answer.kind = "405"

(* if polygon_id and polygon_id not in all_polygons: all_polygons[polygon_id] = polygon *)
MergePolygon(polygons_dict, polygon) ==
    IF polygon.id # "" /\ ~DictHas(polygons_dict, polygon.id)
    THEN DictSet(polygons_dict, polygon.id, polygon)
    ELSE polygons_dict

RECURSIVE MergePolygons(_, _)
(* for polygon in polygons: ... *)
MergePolygons(polygons_dict, polygons) ==
    IF polygons = <<>> THEN polygons_dict
    ELSE MergePolygons(MergePolygon(polygons_dict, Head(polygons)), Tail(polygons))

(* [f for f in features if has_city == True] as square ids, in grid order *)
RECURSIVE SquaresWhere(_, _)
SquaresWhere(features, has_city) ==
    IF features = <<>> THEN <<>>
    ELSE (IF Head(features).has_city = has_city THEN <<Head(features).id>> ELSE <<>>)
            \o SquaresWhere(Tail(features), has_city)

(* [f for f in unknown_squares if id >= args.continue_from] *)
RECURSIVE FromSquare(_, _)
FromSquare(squares, from) ==
    IF squares = <<>> THEN <<>>
    ELSE (IF Head(squares) >= from THEN <<Head(squares)>> ELSE <<>>)
            \o FromSquare(Tail(squares), from)

(* if unknown_squares and args.search_new *)
Stage2Runs == unknown_squares # <<>> /\ search_new

InitCities ==
    /\ pc = "cities_main"
    /\ DiscoveryIdle
    /\ ScriptsIdle("fetch_cities")
    /\ grid_data \in ScanGrids
    /\ log_lines = <<>>
    /\ new_cities = <<>>
    /\ logged = <<>>
    /\ scan_from \in 0..MaxSquares
    /\ search_new \in BOOLEAN
    /\ known_squares = <<>>
    /\ unknown_squares = <<>>
    /\ square_idx = 0
    /\ all_polygons = <<>>
    /\ jwt_expired = FALSE
    /\ scan_log = <<>>

(* main: --continue_from switches --search_new on; the squares are split and
   the unknown ones filtered; return when the filter leaves none *)
SplitSquares ==
    /\ pc = "cities_main"
    /\ search_new' = (search_new \/ scan_from # 0)
    /\ known_squares' = SquaresWhere(grid_data, TRUE)
    /\ unknown_squares' = IF scan_from # 0
                          THEN FromSquare(SquaresWhere(grid_data, FALSE), scan_from)
                          ELSE SquaresWhere(grid_data, FALSE)
    /\ square_idx' = 1
    /\ pc' = IF scan_from # 0 /\ unknown_squares' = <<>> THEN "cities_done"
             ELSE IF known_squares' # <<>> /\ scan_from = 0 THEN "cities_stage1"
             ELSE IF unknown_squares' # <<>> /\ search_new' THEN "cities_stage2"
             ELSE "cities_done"
    /\ UNCHANGED <<grid_data, log_lines, new_cities, logged, scan_from, all_polygons, jwt_expired,
                   scan_log>>
    /\ UNCHANGED <<partvars_rest, runvars, histvars, retryvars, zonesvars, parkvars, mainvars>>

(* one iteration of the stage 1 loop over known_squares *)
Stage1Square ==
    /\ pc = "cities_stage1"
    /\ LET square == known_squares[square_idx]
           last == square_idx = Len(known_squares)
       IN  \E answer \in (IF jwt_expired THEN {a \in RegionAnswers(square) : a.kind = "405"}
                          ELSE RegionAnswers(square)) :
              /\ scan_log' = Append(scan_log, [stage |-> 1, square |-> square,
                                               kind |-> answer.kind,
                                               polygons |-> answer.polygons])
              /\ jwt_expired' = (jwt_expired \/ answer.kind = "405")
              /\ IF HasError(answer) /\ BreaksOn405(answer)
                 THEN /\ pc' = IF Stage2Runs THEN "cities_stage2" ELSE "cities_done"
                      /\ square_idx' = 1
                      /\ UNCHANGED all_polygons
                 ELSE /\ all_polygons' = MergePolygons(all_polygons, answer.polygons)
                      /\ square_idx' = IF last THEN 1 ELSE square_idx + 1
                      /\ pc' = IF ~last THEN "cities_stage1"
                               ELSE IF Stage2Runs THEN "cities_stage2" ELSE "cities_done"
    /\ UNCHANGED <<grid_data, log_lines, new_cities, logged, search_new, scan_from, known_squares,
                   unknown_squares>>
    /\ UNCHANGED <<partvars_rest, runvars, histvars, retryvars, zonesvars, parkvars, mainvars>>

(* one iteration of the stage 2 loop over unknown_squares *)
Stage2Square ==
    /\ pc = "cities_stage2"
    /\ LET square == unknown_squares[square_idx]
           last == square_idx = Len(unknown_squares)
       IN  \E answer \in (IF jwt_expired THEN {a \in RegionAnswers(square) : a.kind = "405"}
                          ELSE RegionAnswers(square)) :
              /\ scan_log' = Append(scan_log, [stage |-> 2, square |-> square,
                                               kind |-> answer.kind,
                                               polygons |-> answer.polygons])
              /\ jwt_expired' = (jwt_expired \/ answer.kind = "405")
              /\ IF HasError(answer) /\ BreaksOn405(answer)
                 THEN /\ pc' = "cities_done"
                      /\ UNCHANGED <<all_polygons, square_idx>>
                 ELSE /\ all_polygons' = MergePolygons(all_polygons, answer.polygons)
                      /\ square_idx' = IF last THEN square_idx ELSE square_idx + 1
                      /\ pc' = IF last THEN "cities_done" ELSE "cities_stage2"
    /\ UNCHANGED <<grid_data, log_lines, new_cities, logged, search_new, scan_from, known_squares,
                   unknown_squares>>
    /\ UNCHANGED <<partvars_rest, runvars, histvars, retryvars, zonesvars, parkvars, mainvars>>

NextCities == SplitSquares \/ Stage1Square \/ Stage2Square

SpecCities == InitCities /\ [][NextCities]_vars

(* the features the responses so far carried, in the order seen *)
RECURSIVE FeaturesSeen(_)
FeaturesSeen(requests) ==
    IF requests = <<>> THEN <<>>
    ELSE FeaturesSeen(SubSeq(requests, 1, Len(requests) - 1))
            \o requests[Len(requests)].polygons

(* C26: a request that meets HTTP 405 is the last request of the run, in
   stage 1 and in stage 2; all_polygons holds every polygon id seen so far
   once, with the first feature seen for it. *)
C26_ScanStopsOn405KeepingPolygons ==
    /\ \A k \in DOMAIN scan_log : scan_log[k].kind = "405" => k = Len(scan_log)
    /\ UniqueKeys(all_polygons)
    /\ LET seen == FeaturesSeen(scan_log)
       IN  /\ \A k \in DOMAIN seen :
                 seen[k].id # "" =>
                    /\ DictHas(all_polygons, seen[k].id)
                    /\ (\A j \in 1..(k - 1) : seen[j].id # seen[k].id)
                          => DictGet(all_polygons, seen[k].id) = seen[k]
           /\ \A e \in DOMAIN all_polygons : \E k \in DOMAIN seen : seen[k] = all_polygons[e].val

-----------------------------------------------------------------------------
(* fetch_parkings.py: main loads the rent zones of every city and the
   transports around every rent zone, then converts the collected responses
   to two GeoJSON files, one of parkings and one of vehicles. *)

MaxParkCities == 2

ParkCityIds == [i \in 1..MaxParkCities |-> i]

(* a rent zone of a city, with or without 'coordinates' *)
RentZone(city, k, has_coordinates) ==
    [id |-> <<city, k>>, has_coordinates |-> has_coordinates]

(* rent_zones_data.get('data', []) of a successful response *)
RentZoneLists(city) ==
    { <<>>,
      <<RentZone(city, 1, TRUE)>>,
      <<RentZone(city, 1, TRUE), RentZone(city, 2, TRUE)>>,
      <<RentZone(city, 1, FALSE), RentZone(city, 2, TRUE)>> }

(* what fetch_rent_zones meets: HTTP 403, another failure, a response *)
RentZonesAnswers(city) ==
    {[kind |-> "403", zones |-> <<>>], [kind |-> "error", zones |-> <<>>]}
      \cup {[kind |-> "ok", zones |-> zones] : zones \in RentZoneLists(city)}

(* an entry of parkingList or of transports; "None" is an absent value *)
Item(id, latitude, longitude) == [id |-> id, latitude |-> latitude, longitude |-> longitude]

(* transports_data['data'] of a successful response: the search radii of
   neighbouring zones overlap, so the same ids come back for several zones *)
TransportsData ==
    { [parkingList |-> <<Item("p1", "55.7", "37.6")>>,
       transports  |-> <<Item("v1", "55.7", "37.6")>>],
      [parkingList |-> <<Item("p1", "None", "37.6")>>,
       transports  |-> <<Item("v1", "55.7", "None")>>],
      [parkingList |-> <<Item("p1", "55.7", "37.6"), Item("p2", "55.8", "37.7")>>,
       transports  |-> <<>>],
      [parkingList |-> <<>>,
       transports  |-> <<Item("v2", "55.8", "37.7"), Item("v2", "55.8", "37.7")>>] }

NoTransports == [parkingList |-> <<>>, transports |-> <<>>]

(* what fetch_transports meets: raise_for_status raises on HTTP 403 as on any
   other error status; or a response *)
TransportsAnswers ==
    {[kind |-> "403", data |-> NoTransports], [kind |-> "error", data |-> NoTransports]}
      \cup {[kind |-> "ok", data |-> d] : d \in TransportsData}

(* fetch_rent_zones: if response.status_code == 403: sys.exit(1) *)
RentZonesExit(answer) == answer.kind = "403"

InitParkings ==
    /\ pc = "park_city"
    /\ DiscoveryIdle
    /\ ScriptsIdle("fetch_parkings")
    /\ \E n \in 1..MaxParkCities : park_cities = SubSeq(ParkCityIds, 1, n)
    /\ city_i = 1
    /\ rent_zones = <<>>
    /\ zone_j = 0
    /\ city_data = <<>>
    /\ all_parkings_data = <<>>
    /\ parking_features = <<>>
    /\ vehicle_features = <<>>
    /\ park_log = <<>>

(* the position after the body of the city loop *)
NextCity(i) == IF i = Len(park_cities) THEN "park_convert" ELSE "park_city"

(* for city in cities: rent_zones_data = fetch_rent_zones(city_id, token) *)
FetchRentZones ==
    /\ pc = "park_city"
    /\ LET city == park_cities[city_i]
       IN  \E answer \in RentZonesAnswers(city) :
              /\ park_log' = Append(park_log, [what |-> "rent_zones", city |-> city,
                                               zone |-> <<>>, kind |-> answer.kind])
              /\ IF RentZonesExit(answer)
                 THEN /\ pc' = "exited"
                      /\ UNCHANGED <<city_i, rent_zones, zone_j, city_data, all_parkings_data>>
                 ELSE IF answer.kind = "error"
                 THEN /\ pc' = NextCity(city_i)
                      /\ city_i' = city_i + 1
                      /\ UNCHANGED <<rent_zones, zone_j, city_data, all_parkings_data>>
                 ELSE IF answer.zones = <<>>
                 THEN /\ all_parkings_data' =
                            Append(all_parkings_data, [city_name |-> city, zones |-> <<>>])
                      /\ pc' = NextCity(city_i)
                      /\ city_i' = city_i + 1
                      /\ UNCHANGED <<rent_zones, zone_j, city_data>>
                 ELSE /\ rent_zones' = answer.zones
                      /\ zone_j' = 1
                      /\ city_data' = <<>>
                      /\ pc' = "park_zone"
                      /\ UNCHANGED <<city_i, all_parkings_data>>
    /\ UNCHANGED <<park_cities, parking_features, vehicle_features>>
    /\ UNCHANGED <<partvars_rest, runvars, histvars, retryvars, zonesvars, citiesvars, mainvars>>

(* for rent_zone in rent_zones: skip a zone without coordinates, else
   fetch_transports inside try/except Exception; after the last zone
   all_parkings_data.append(city_data) *)
FetchTransports ==
    /\ pc = "park_zone"
    /\ LET city == park_cities[city_i]
           rent_zone == rent_zones[zone_j]
           last == zone_j = Len(rent_zones)
           choices == IF rent_zone.has_coordinates THEN TransportsAnswers
                      ELSE {[kind |-> "skipped", data |-> NoTransports]}
       IN  \E answer \in choices :
              LET zones == IF answer.kind = "ok"
                           THEN Append(city_data, [rent_zone_id |-> rent_zone.id,
                                                   transports |-> answer.data])
                           ELSE city_data
              IN  /\ park_log' = IF rent_zone.has_coordinates
                                 THEN Append(park_log, [what |-> "transports", city |-> city,
                                                        zone |-> rent_zone.id,
                                                        kind |-> answer.kind])
                                 ELSE park_log
                  /\ IF last
                     THEN /\ all_parkings_data' =
                                Append(all_parkings_data, [city_name |-> city, zones |-> zones])
                          /\ city_data' = zones
                          /\ pc' = NextCity(city_i)
                          /\ city_i' = city_i + 1
                          /\ UNCHANGED zone_j
                     ELSE /\ city_data' = zones
                          /\ zone_j' = zone_j + 1
                          /\ UNCHANGED <<pc, city_i, all_parkings_data>>
    /\ UNCHANGED <<park_cities, rent_zones, parking_features, vehicle_features>>
    /\ UNCHANGED <<partvars_rest, runvars, histvars, retryvars, zonesvars, citiesvars, mainvars>>

(* the entries of one list ('parkingList' or 'transports') of every zone of
   every city, in the order the conversion loops visit them *)
RECURSIVE ZoneItems(_, _, _)
ZoneItems(zones, city_name, list) ==
    IF zones = <<>> THEN <<>>
    ELSE [k \in DOMAIN zones[1].transports[list] |->
             [city |-> city_name, item |-> zones[1].transports[list][k]]]
            \o ZoneItems(Tail(zones), city_name, list)

RECURSIVE AllItems(_, _)
AllItems(data, list) ==
    IF data = <<>> THEN <<>>
    ELSE ZoneItems(data[1].zones, data[1].city_name, list) \o AllItems(Tail(data), list)

(* the GeoJSON feature of a parking or a vehicle *)
PointFeature(entry) ==
    [id |-> entry.item.id, city |-> entry.city,
     coordinates |-> <<entry.item.longitude, entry.item.latitude>>]

(* the body of the innermost loop: skip a seen id, mark the id as seen, skip
   an entry without latitude or longitude, else append its feature *)
ConvertItem(acc, entry) ==
    IF entry.item.id \in acc.seen THEN acc
    ELSE IF entry.item.latitude = "None" \/ entry.item.longitude = "None"
    THEN [acc EXCEPT !.seen = @ \cup {entry.item.id}]
    ELSE [seen |-> acc.seen \cup {entry.item.id},
          features |-> Append(acc.features, PointFeature(entry))]

RECURSIVE ConvertItems(_, _)
ConvertItems(acc, entries) ==
    IF entries = <<>> THEN acc
    ELSE ConvertItems(ConvertItem(acc, Head(entries)), Tail(entries))

NothingSeen == [seen |-> {}, features |-> <<>>]

convert_parkings_to_geojson(data) ==
    ConvertItems(NothingSeen, AllItems(data, "parkingList")).features

convert_vehicles_to_geojson(data) ==
    ConvertItems(NothingSeen, AllItems(data, "transports")).features

(* main after the city loop: both conversions of all_parkings_data *)
ConvertToGeojson ==
    /\ pc = "park_convert"
    /\ parking_features' = convert_parkings_to_geojson(all_parkings_data)
    /\ vehicle_features' = convert_vehicles_to_geojson(all_parkings_data)
    /\ pc' = "park_done"
    /\ UNCHANGED <<park_cities, city_i, rent_zones, zone_j, city_data, all_parkings_data,
                   park_log>>
    /\ UNCHANGED <<partvars_rest, runvars, histvars, retryvars, zonesvars, citiesvars, mainvars>>

NextParkings == FetchRentZones \/ FetchTransports \/ ConvertToGeojson

SpecParkings == InitParkings /\ [][NextParkings]_vars

RentZoneRequests(city) ==
    {k \in DOMAIN park_log : park_log[k].what = "rent_zones" /\ park_log[k].city = city}

(* C27: a request that meets HTTP 403 is the last request and ends the run;
   nothing else ends it: the run exits only on a 403, and a run that reaches
   the conversion has requested the rent zones of every city once, whatever
   failures the earlier cities and zones met. *)
C27_OnlyAuthRejectionStopsRun ==
    /\ \A k \in DOMAIN park_log :
          park_log[k].kind = "403" => k = Len(park_log) /\ pc = "exited"
    /\ pc = "exited" => park_log # <<>> /\ park_log[Len(park_log)].kind = "403"
    /\ pc \in {"park_convert", "park_done"} =>
          \A c \in DOMAIN park_cities : Cardinality(RentZoneRequests(park_cities[c])) = 1

(* the ids that occur in the collected responses with latitude and longitude *)
LocatedIds(list) ==
    LET entries == AllItems(all_parkings_data, list)
    IN  {entries[k].item.id : k \in {j \in DOMAIN entries :
                                      /\ entries[j].item.latitude # "None"
                                      /\ entries[j].item.longitude # "None"}}

FeaturesWithId(features, id) == {k \in DOMAIN features : features[k].id = id}

(* C28: after the conversion every parking id, and every vehicle id, that
   occurs in the responses at least once with latitude and longitude has
   exactly one feature, and no id has more than one. *)
C28_LocatedIdsConvertedOnce ==
    pc = "park_done" =>
       /\ \A id \in LocatedIds("parkingList") :
             Cardinality(FeaturesWithId(parking_features, id)) = 1
       /\ \A id \in LocatedIds("transports") :
             Cardinality(FeaturesWithId(vehicle_features, id)) = 1
       /\ \A k \in DOMAIN parking_features :
             Cardinality(FeaturesWithId(parking_features, parking_features[k].id)) = 1
       /\ \A k \in DOMAIN vehicle_features :
             Cardinality(FeaturesWithId(vehicle_features, vehicle_features[k].id)) = 1

-----------------------------------------------------------------------------
(* fetch_scooters.py: main with --city.  Every zone of the city is discovered
   by its own call of fetch_city_scooters; the returned dicts are appended to
   one list of pairs, turned into a dict and saved. *)

MaxZones == 3

ZoneIds == [i \in 1..MaxZones |-> i]

Entry(record) == [key |-> record.id, val |-> record]

(* dicts a call of fetch_city_scooters returns: {} and accumulators with
   unique keys; zones of one city overlap, so an id comes back from several
   zones, possibly with another record *)
ZoneDicts ==
    { <<>>,
      <<Entry(Record("scooter_1", <<1, 1>>, 0, 1))>>,
      <<Entry(Record("scooter_1", <<1, 1>>, 0, 2)), Entry(Record("cluster_2", <<2, 1>>, 40, 1))>>,
      <<Entry(Record("cluster_2", <<2, 1>>, 60, 1)), Entry(Record("scooter_1", <<1, 1>>, 0, 1))>>,
      <<Entry(Record("cluster_3", <<>>, 120, 1))>> }

(* with_full_info: a call that reached stage 5 added '__metadata__' *)
WithMetadata(d) == Append(d, [key |-> "__metadata__", val |-> MetadataRecord])

(* what the call for one zone ends with: sys.exit(1) inside fetch_scooters,
   or a returned dict *)
ZoneOutcomes(mode) ==
    {[kind |-> "exit", scooters |-> <<>>]}
      \cup {[kind |-> "returned", scooters |-> d] : d \in ZoneDicts}
      \cup (IF mode THEN {[kind |-> "returned", scooters |-> WithMetadata(d)] :
                             d \in ZoneDicts \ {<<>>}}
            ELSE {})

KeepsEveryPair(scooter_id) == TRUE

(* if scooter_id != '__metadata__' *)
KeepsPair(scooter_id) == scooter_id # "__metadata__"

(* for scooter_id, scooter_data in scooters.items(): all_scooters.append(...) *)
RECURSIVE AppendPairs(_, _)
AppendPairs(pairs, scooters) ==
    IF scooters = <<>> THEN pairs
    ELSE AppendPairs(IF KeepsPair(Head(scooters).key) THEN Append(pairs, Head(scooters))
                     ELSE pairs,
                     Tail(scooters))

(* dict(all_scooters) *)
RECURSIVE DictOfPairs(_)
DictOfPairs(pairs) ==
    IF pairs = <<>> THEN <<>>
    ELSE LET last == pairs[Len(pairs)]
         IN  DictSet(DictOfPairs(SubSeq(pairs, 1, Len(pairs) - 1)), last.key, last.val)

InitCityZones ==
    /\ pc = "city_zone"
    /\ DiscoveryIdle
    /\ ScriptsIdle("fetch_scooters --city")
    /\ \E n \in 1..MaxZones : city_zones = SubSeq(ZoneIds, 1, n)
    /\ zone_idx = 1
    /\ args_with_full_info \in BOOLEAN
    /\ merged_scooters = <<>>
    /\ city_scooters_dict = <<>>
    /\ saved_features = <<>>
    /\ zone_results = <<>>

(* one iteration of for idx, zone in enumerate(city_zones, 1) *)
DiscoverZone ==
    /\ pc = "city_zone"
    /\ \E outcome \in ZoneOutcomes(args_with_full_info) :
          IF outcome.kind = "exit"
          THEN /\ pc' = "exited"
               /\ UNCHANGED <<zone_idx, merged_scooters, zone_results>>
          ELSE /\ merged_scooters' = AppendPairs(merged_scooters, outcome.scooters)
               /\ zone_results' = Append(zone_results, outcome.scooters)
               /\ zone_idx' = zone_idx + 1
               /\ pc' = IF zone_idx = Len(city_zones) THEN "city_merge" ELSE "city_zone"
    /\ UNCHANGED <<city_zones, args_with_full_info, city_scooters_dict, saved_features>>
    /\ UNCHANGED <<partvars_rest, runvars, histvars, retryvars, zonesvars, citiesvars, parkvars>>

(* city_scooters_dict = dict(all_scooters); save_geojson(city_scooters_dict, ...) *)
SaveMerged ==
    /\ pc = "city_merge"
    /\ city_scooters_dict' = DictOfPairs(merged_scooters)
    /\ saved_features' = Features(city_scooters_dict', args_with_full_info)
    /\ pc' = "city_saved"
    /\ UNCHANGED <<city_zones, zone_idx, args_with_full_info, merged_scooters, zone_results>>
    /\ UNCHANGED <<partvars_rest, runvars, histvars, retryvars, zonesvars, citiesvars, parkvars>>

NextCityZones == DiscoverZone \/ SaveMerged

SpecCityZones == InitCityZones /\ [][NextCityZones]_vars

ZonesObserving(id) == {z \in DOMAIN zone_results : DictHas(zone_results[z], id)}

LastObserved(id) ==
    LET z == CHOOSE z \in ZonesObserving(id) : \A y \in ZonesObserving(id) : y <= z
    IN  DictGet(zone_results[z], id)

(* C29 as stated: the saved collection has one feature per id, located where
   the last zone that returned the id reported it, none for '__metadata__',
   and one for every id that any zone returned. *)
C29_SavedHasEveryId ==
    pc = "city_saved" =>
       /\ \A f, g \in DOMAIN saved_features :
             saved_features[f].id = saved_features[g].id => f = g
       /\ \A f \in DOMAIN saved_features :
             /\ saved_features[f].id # "__metadata__"
             /\ saved_features[f].coordinates = LastObserved(saved_features[f].id).geo
       /\ \A z \in DOMAIN zone_results :
             \A id \in DictKeys(zone_results[z]) \ {"__metadata__"} :
                \E f \in DOMAIN saved_features : saved_features[f].id = id

(* C29 amended: a city of several zones is saved after one discovery per zone; the
   merged collection has one record per id, the record of the last zone that
   returned the id; it has no '__metadata__' entry; it has every other id
   that any zone returned; the features written from it have distinct ids,
   none of them '__metadata__', each located where that last record is. *)
C29_ZonesMergedLastWins ==
    pc = "city_saved" =>
       /\ Len(zone_results) = Len(city_zones)
       /\ UniqueKeys(city_scooters_dict)
       /\ ~DictHas(city_scooters_dict, "__metadata__")
       /\ \A e \in DOMAIN city_scooters_dict :
             /\ ZonesObserving(city_scooters_dict[e].key) # {}
             /\ city_scooters_dict[e].val = LastObserved(city_scooters_dict[e].key)
       /\ \A z \in DOMAIN zone_results :
             \A id \in DictKeys(zone_results[z]) \ {"__metadata__"} : DictHas(city_scooters_dict, id)
       /\ \A f, g \in DOMAIN saved_features :
             saved_features[f].id = saved_features[g].id => f = g
       /\ \A f \in DOMAIN saved_features :
             /\ saved_features[f].id # "__metadata__"
             /\ DictHas(city_scooters_dict, saved_features[f].id)
             /\ saved_features[f].coordinates = LastObserved(saved_features[f].id).geo

C29_Witness ==
    /\ pc = "city_saved"
    /\ args_with_full_info
    /\ Len(zone_results) = 2
    /\ DictHas(zone_results[1], "scooter_1")
    /\ DictGet(zone_results[1], "scooter_1").ver = 1
    /\ DictHas(zone_results[2], "__metadata__")
    /\ DictHas(zone_results[2], "cluster_2")
    /\ DictGet(city_scooters_dict, "scooter_1").ver = 2
    /\ Len(city_scooters_dict) = 2
    /\ Len(saved_features) = 1

-----------------------------------------------------------------------------
(* fetch_cities.py: log_progress writes the scan log as text and
   update_grid_from_log reads it back with a regular expression.  A line is a
   sequence of tokens: words, single digits, ":" and " ". *)

MaxLogLines == 2

DigitChars == <<"0", "1", "2", "3", "4", "5", "6", "7", "8", "9">>

IsDigit(token) == \E d \in DOMAIN DigitChars : DigitChars[d] = token

DigitValue(token) == (CHOOSE d \in DOMAIN DigitChars : DigitChars[d] = token) - 1

(* str(n) of a number below 100 *)
DecimalText(n) ==
    IF n < 10 THEN <<DigitChars[n + 1]>>
    ELSE <<DigitChars[(n \div 10) + 1], DigitChars[(n % 10) + 1]>>

(* f"[{timestamp}] Square #{square_id}: {found_count} polygons found {message}\n" *)
FormatLine(square_id, found_count, message) ==
    <<"[timestamp]", " ", "Square #">> \o DecimalText(square_id) \o <<":", " ">>
       \o DecimalText(found_count) \o <<" ", "polygons", " ", "found", " ", message>>

(* f"Squares processed: {idx}/{len(known_squares)}\n" of the stage summary *)
SummaryLine(processed, total) ==
    <<"Squares processed:", " ">> \o DecimalText(processed) \o <<"/">> \o DecimalText(total)

At(line, i) == IF i \in DOMAIN line THEN line[i] ELSE "end"

(* the length of the longest run of tokens of one class that starts at i *)
RECURSIVE DigitRun(_, _)
DigitRun(line, i) == IF IsDigit(At(line, i)) THEN 1 + DigitRun(line, i + 1) ELSE 0

RECURSIVE SpaceRun(_, _)
SpaceRun(line, i) == IF At(line, i) = " " THEN 1 + SpaceRun(line, i + 1) ELSE 0

(* int() of the n digits that start at i *)
RECURSIVE ParseInt(_, _, _)
ParseInt(line, i, n) ==
    IF n = 0 THEN 0
    ELSE 10 * ParseInt(line, i, n - 1) + DigitValue(line[i + n - 1])

NoMatch == [matched |-> FALSE, square_id |-> 0, polygon_count |-> 0]

(* r'Square #(\d+):\s*(\d+)\s+polygons?\s+found' tried at token p *)
MatchAt(line, p) ==
    LET a  == p + 1
        n1 == DigitRun(line, a)
        b  == a + n1 + 1
        c  == b + SpaceRun(line, b)
        n2 == DigitRun(line, c)
        d  == c + n2
        s2 == SpaceRun(line, d)
        e  == d + s2
        s3 == SpaceRun(line, e + 1)
    IN  IF /\ At(line, p) = "Square #"
           /\ n1 >= 1
           /\ At(line, a + n1) = ":"
           /\ n2 >= 1
           /\ s2 >= 1
           /\ At(line, e) \in {"polygon", "polygons"}
           /\ s3 >= 1
           /\ At(line, e + 1 + s3) = "found"
        THEN [matched |-> TRUE, square_id |-> ParseInt(line, a, n1),
              polygon_count |-> ParseInt(line, c, n2)]
        ELSE NoMatch

(* re.search: the leftmost match *)
Search(line) ==
    LET hits == {p \in DOMAIN line : MatchAt(line, p).matched}
    IN  IF hits = {} THEN NoMatch
        ELSE MatchAt(line, CHOOSE p \in hits : \A q \in hits : p <= q)

KeepLatest(old, new) == new

(* max(squares_with_cities[square_id], polygon_count) *)
KeepMax(old, new) == IF old >= new THEN old ELSE new

(* the loop over the lines of the log: squares_with_cities *)
RECURSIVE ParseLog(_)
ParseLog(lines) ==
    IF lines = <<>> THEN <<>>
    ELSE LET squares_with_cities == ParseLog(SubSeq(lines, 1, Len(lines) - 1))
             match == Search(lines[Len(lines)])
         IN  IF match.matched /\ match.polygon_count > 0
             THEN IF DictHas(squares_with_cities, match.square_id)
                  THEN DictSet(squares_with_cities, match.square_id,
                               KeepMax(DictGet(squares_with_cities, match.square_id),
                                       match.polygon_count))
                  ELSE DictSet(squares_with_cities, match.square_id, match.polygon_count)
             ELSE squares_with_cities

(* the loop over grid_data['features'] *)
MarkSquares(features, squares_with_cities) ==
    [i \in DOMAIN features |->
        IF DictHas(squares_with_cities, features[i].id)
        THEN Square(features[i].id, TRUE, TRUE, DictGet(squares_with_cities, features[i].id))
        ELSE features[i]]

(* new_cities: the marked squares with was_known false *)
CountNew(features, squares_with_cities) ==
    Cardinality({i \in DOMAIN features :
                    DictHas(squares_with_cities, features[i].id) /\ ~features[i].has_city})

(* the (found_count, message) the scan calls log_progress with: a failed
   request, polygons found in stage 1, polygons found in stage 2 *)
LoggedCalls == {<<0, "ERROR: Timeout">>, <<2, "">>, <<12, "NEW!">>}

InitGridLog ==
    /\ pc = "log_open"
    /\ DiscoveryIdle
    /\ ScriptsIdle("fetch_cities")
    /\ grid_data \in ScanGrids
    /\ log_lines = <<>>
    /\ new_cities = <<>>
    /\ logged = <<>>
    /\ search_new = FALSE
    /\ scan_from = 0
    /\ known_squares = <<>>
    /\ unknown_squares = <<>>
    /\ square_idx = 0
    /\ all_polygons = <<>>
    /\ jwt_expired = FALSE
    /\ scan_log = <<>>

(* log_progress(log_file, square_id, found_count, message), called by a scan
   of this grid or of a larger one *)
LogProgress ==
    /\ pc = "log_open"
    /\ Len(log_lines) < MaxLogLines
    /\ \E square_id \in 1..(MaxSquares + 1), call \in LoggedCalls :
          /\ log_lines' = Append(log_lines, FormatLine(square_id, call[1], call[2]))
          /\ logged' = Append(logged, [square_id |-> square_id, found_count |-> call[1]])
    /\ UNCHANGED <<pc, grid_data, new_cities, search_new, scan_from, known_squares,
                   unknown_squares, square_idx, all_polygons, jwt_expired, scan_log>>
    /\ UNCHANGED <<partvars_rest, runvars, histvars, retryvars, zonesvars, parkvars, mainvars>>

(* the stage summary written to the log when a stage ends *)
LogSummary ==
    /\ pc = "log_open"
    /\ Len(log_lines) < MaxLogLines
    /\ log_lines' = Append(log_lines, SummaryLine(MaxSquares, 12))
    /\ UNCHANGED <<pc, grid_data, new_cities, logged, search_new, scan_from, known_squares,
                   unknown_squares, square_idx, all_polygons, jwt_expired, scan_log>>
    /\ UNCHANGED <<partvars_rest, runvars, histvars, retryvars, zonesvars, parkvars, mainvars>>

(* update_grid_from_log(grid_data, log_file), a first and a second time *)
UpdateGridFromLog ==
    /\ pc \in {"log_open", "log_applied"}
    /\ LET squares_with_cities == ParseLog(log_lines)
       IN  IF squares_with_cities = <<>>
           THEN /\ new_cities' = Append(new_cities, 0)
                /\ UNCHANGED grid_data
           ELSE /\ grid_data' = MarkSquares(grid_data, squares_with_cities)
                /\ new_cities' = Append(new_cities, CountNew(grid_data, squares_with_cities))
    /\ pc' = IF pc = "log_open" THEN "log_applied" ELSE "log_reapplied"
    /\ UNCHANGED <<log_lines, logged, search_new, scan_from, known_squares,
                   unknown_squares, square_idx, all_polygons, jwt_expired, scan_log>>
    /\ UNCHANGED <<partvars_rest, runvars, histvars, retryvars, zonesvars, parkvars, mainvars>>

NextGridLog == LogProgress \/ LogSummary \/ UpdateGridFromLog

SpecGridLog == InitGridLog /\ [][NextGridLog]_vars

(* the positive counts logged for a square *)
CountsLogged(square_id) ==
    {logged[k].found_count : k \in {j \in DOMAIN logged :
                                       /\ logged[j].square_id = square_id
                                       /\ logged[j].found_count > 0}}

MaxOf(S) == CHOOSE m \in S : \A n \in S : n <= m

(* C30: an application of update_grid_from_log sets has_city, tested and the
   largest logged count on exactly the squares logged with a positive count,
   leaves the other squares as they were, and returns the number of the marked
   squares that had no has_city; a second application to the same log
   changes nothing and returns 0. *)
C30_MarksLoggedSquaresIdempotently ==
    [][ new_cities' # new_cities =>
          /\ \A i \in DOMAIN grid_data :
                IF CountsLogged(grid_data[i].id) # {}
                THEN grid_data'[i] = Square(grid_data[i].id, TRUE, TRUE,
                                            MaxOf(CountsLogged(grid_data[i].id)))
                ELSE grid_data'[i] = grid_data[i]
          /\ DOMAIN grid_data' = DOMAIN grid_data
          /\ new_cities'[Len(new_cities')] =
                Cardinality({i \in DOMAIN grid_data :
                                CountsLogged(grid_data[i].id) # {} /\ ~grid_data[i].has_city})
          /\ pc = "log_applied" =>
                grid_data' = grid_data /\ new_cities'[Len(new_cities')] = 0 ]_vars

C30_Witness ==
    /\ pc = "log_reapplied"
    /\ new_cities = <<1, 0>>
    /\ logged = <<[square_id |-> 1, found_count |-> 12], [square_id |-> 1, found_count |-> 2]>>
    /\ grid_data[1] = Square(1, TRUE, TRUE, 12)
    /\ grid_data[2] = Square(2, FALSE, FALSE, 0)
    /\ grid_data[3] = Square(3, TRUE, TRUE, 1)

====
